---- MODULE Spec2Model ----
(***************************************************************************)
(* A model of the task scheduling and execution engine of the forwarding   *)
(* bot (src/enhanced_frw.py, src/enhanced_handlers.py): the polling loop   *)
(* check_enhanced_tasks, the per-task coroutine execute_enhanced_task with *)
(* execute_forwarding_task, the session registry get_userbot_client, the   *)
(* bulk handlers and group joining (join_groups_from_folder).              *)
(*                                                                         *)
(* Threads.  The scheduler runs in its own thread with its own asyncio     *)
(* loop; the coroutines of one poll cycle are interleaved only at their    *)
(* awaits (the variable running names the coroutine that holds the         *)
(* scheduler thread between two awaits).  Handlers run in another thread   *)
(* and interleave with the scheduler at every step; a section under        *)
(* db_lock or userbots_lock is one atomic step.                            *)
(***************************************************************************)
EXTENDS Integers, Sequences, FiniteSets, TLC

\* ------------------------------------------------------------- constants
NULL == -1                       \* SQL NULL / Python None of an INTEGER column
CHECK_TASKS_INTERVAL == 60       \* seconds slept between two poll cycles
SEMAPHORE_LIMIT == 5             \* asyncio.Semaphore(5)
SECONDS_PER_MINUTE == 60         \* repetition_interval * 60
MAX_RETRIES == 5                 \* max_retries of add_and_join_group
BASE_DELAY == 5                  \* base_delay of add_and_join_group, seconds
FLOOD_CAP == 60                  \* min(e.seconds, 60)
JOIN_TIMEOUT == 30               \* asyncio.wait_for(add_and_join_group(...), timeout=30)

\* ---------------------------------------------------------------- bounds
T0 == 600            \* the clock at the first poll (seconds)
ExecTasks == 2       \* tasks of the specification Spec
ExecCycles == 1      \* poll cycles after the first one, in Spec
ExecFaults == 1      \* store outages, in Spec
ExecSessionFaults == 1  \* session constructions that may fail, in Spec
DisconnectTasks == 2    \* tasks of the specification SpecDisconnect
DisconnectFaults == 1   \* disconnects that may raise, in SpecDisconnect
WindowTasks == 2     \* tasks of the specification SpecWindow
WindowCycles == 3    \* poll cycles after the first one, in SpecWindow
StuckTasks == 3      \* tasks of the specification SpecStuck
StuckCycles == 1     \* poll cycles after the first one, in SpecStuck
TargetsTasks == 2    \* target-all tasks, one per subscriber, in SpecTargets
TargetsOps == 2      \* add-groups-to-folder submissions in SpecTargets
TargetsCycles == 1   \* poll cycles after the first one, in SpecTargets
InviteOps == 3       \* invitation codes submitted in SpecInvite
InviteCycles == 2    \* poll cycles after the first one, in SpecInvite
RemoveOps == 4       \* acquires and deletions in SpecRemove
LinkTail == 3        \* parts of a reference after https://t.me, in SpecResolve
OrderCalls == 3      \* calls of get_userbot_client and deletions, in SpecOrder
SkipTasks == 3       \* tasks of the specification SpecSkip
SkipCycles == 1      \* poll cycles after the first one, in SpecSkip
RemoveSessionFaults == 1  \* constructions of a session that fail, in SpecRemove

LockTasks == 1       \* tasks of the specification SpecLock
LockCycles == 1      \* poll cycles after the first one, in SpecLock
LockJoins == 1       \* group-joining runs of the control surface, in SpecLock
LockSessionFaults == 1  \* session constructions that may fail, in SpecLock
StatusTasks == 3     \* tasks of the specification SpecStatus
StatusCycles == 2    \* poll cycles after the first one, in SpecStatus
StatusOps == 3       \* bulk operations of the administrator, in SpecStatus
LimiterTasks == 6    \* tasks of the specification SpecLimiter
LimiterCycles == 1   \* poll cycles after the first one, in SpecLimiter
DueSpan == 1         \* minutes around T0 of the times of SpecDue
DueIntervals == 2    \* largest repetition interval of SpecDue (minutes)
MaxTasks == 6        \* rows the tasks table can hold
ShutdownAcquires == 3   \* calls of get_userbot_client before the signal, in SpecShutdown
ShutdownSessionFaults == 1  \* session constructions that may fail, in SpecShutdown
JoinCalls == 2       \* calls of add_and_join_group for one reference, in SpecJoin
FloodWaits == {3, 90}  \* the waits a rate limit advertises, seconds
LegacyTargets == 2   \* target groups of the folder, in SpecLegacy

TaskIds == 1..MaxTasks
Phones == {"p1", "p2", "p3"}
NoLink == "none"

VARIABLES
  tasks,           \* table tasks: id -> the columns the engine writes
  cfg,             \* table tasks: id -> the columns the engine only reads
  target_groups,   \* table target_groups: set of rows
  userbots_table,  \* table userbots: the phone numbers that have a row
  clients,         \* table clients: invitation_code -> total_messages_sent
  logs,            \* table logs: <<event, task>> -> number of rows
  admin_actions,   \* table admin_actions: set of rows
  userbots,        \* the registry dict: phone -> id of the cached tuple, 0 if none
  created,         \* phone -> sessions and execution contexts constructed so far
  lock,            \* phone -> the asyncio.Lock of the cached tuple
  semaphore,       \* the asyncio.Semaphore of the current poll cycle
  sched,           \* the coroutine check_enhanced_tasks
  co,              \* id -> the coroutine run_task_with_semaphore(id)
  running,         \* the task whose coroutine holds the scheduler thread, 0 if none
  now,             \* the clock, seconds
  budget,          \* what is left of the bounds of the specification
  join,            \* the handler thread running join_groups_from_folder
  attempts,        \* id -> history: executions attempted, statistics updates committed, ...
  due,             \* inputs and result of the due-check (specification SpecDue)
  aj,              \* the handler thread running add_and_join_group (src/frw.py)
  term,            \* the main thread in shutdown() and the loops of the sessions
  legacy,          \* the coroutine execute_task of check_tasks (src/frw.py)
  invitation,      \* table clients: the binding of the keys; the handler process_invitation_code
  removal,         \* the handler of remove_ub_<phone> and a caller of get_userbot_client (src/frw.py)
  resolution,      \* a call of get_message_from_link on its own (specification SpecResolve)
  locking          \* db_lock, userbots_lock and the threads that take them (specification SpecOrder)

vars == <<tasks, cfg, target_groups, userbots_table, clients, logs, admin_actions,
          userbots, created, lock, semaphore, sched, co, running, now, budget,
          join, attempts, due, aj, term, legacy, invitation, removal, resolution, locking>>

\* ------------------------------------------------------------- the store
Statuses == {"active", "paused", "completed", "failed"}

\* A row as INSERT INTO tasks leaves it (DEFAULT 0 counters, last_run NULL).
NewRow(status) ==
  [status |-> status, last_run |-> NULL,
   total_runs |-> 0, successful_runs |-> 0, failed_runs |-> 0]

NoRow == NewRow("absent")

LogEvents == {"Task Failed", "Task Success", "Task Execution Error",
              "Task Batch Completed", "Task Check Error",
              "Get Userbot Client Error"}

\* log_event: one INSERT INTO logs and a commit.
log_event(l, event, task) == [l EXCEPT ![<<event, task>>] = @ + 1]

\* Python truth of an INTEGER column: None and 0 are false.
Truthy(x) == x # NULL /\ x # 0

\* The choices of a store operation: it returns (FALSE) or raises (TRUE).
\* budget.faults counts the store outages left; one outage makes an
\* operation raise and may last over the log_event of the handler that
\* catches it.
Faulty == IF budget.faults > 0 THEN {FALSE, TRUE} ELSE {FALSE}

Spend(b, n) == [b EXCEPT !.faults = @ - n, !.spent = @ + n]

\* SELECT id FROM tasks WHERE status = 'active' ORDER BY COALESCE(last_run, 0):
\* rows of equal last_run come in rowid order.
Coalesce(x) == IF x = NULL THEN 0 ELSE x

Before(a, b) ==
  \/ Coalesce(tasks[a].last_run) < Coalesce(tasks[b].last_run)
  \/ Coalesce(tasks[a].last_run) = Coalesce(tasks[b].last_run) /\ a < b

RECURSIVE SortedSeq(_)
SortedSeq(S) ==
  IF S = {} THEN <<>>
  ELSE LET first == CHOOSE a \in S : \A b \in S \ {a} : Before(a, b)
       IN <<first>> \o SortedSeq(S \ {first})

\* The elements of a set of ids in the order of the store (rowid).
RECURSIVE GroupSeq(_)
GroupSeq(S) ==
  IF S = {} THEN <<>>
  ELSE LET g == CHOOSE a \in S : \A b \in S : a <= b
       IN <<g>> \o GroupSeq(S \ {g})

\* A variant of the query without the ORDER BY: the rows come in rowid
\* order; C32_ActiveStartedInOrder must tell it from ActiveTasks.
ActiveTasks_ByRowid == GroupSeq({t \in TaskIds : tasks[t].status = "active"})

ActiveTasks == SortedSeq({t \in TaskIds : tasks[t].status = "active"})

\* The target set of a task, in the order of the store (rowid = group_id).
TargetGroupsOf(t) ==
  IF cfg[t].send_to_all_groups # 0
    THEN GroupSeq({r.group_id : r \in {x \in target_groups : x.added_by = cfg[t].client_id}})
    ELSE GroupSeq({r.group_id : r \in {x \in target_groups : x.folder_id = cfg[t].folder_id}})

\* A variant of the due-check without the test of the start time;
\* C33_NotDueChangesNothing must tell it from DueCheck.
DueCheck_NoStartTest(start_time, end_time, last_run, repetition_interval, current_time) ==
  IF Truthy(end_time) /\ current_time > end_time
    THEN "Task has ended"
  ELSE IF /\ Truthy(last_run) /\ Truthy(repetition_interval)
          /\ current_time < last_run + repetition_interval * SECONDS_PER_MINUTE
    THEN "Not yet time for next repetition"
  ELSE "due"

\* A variant of the due-check without the test of the repetition interval;
\* C23_OncePerDueWindow must tell it from DueCheck.
DueCheck_NoRepetitionTest(start_time, end_time, last_run, repetition_interval, current_time) ==
  IF Truthy(start_time) /\ current_time < start_time
    THEN "Not yet time to start"
  ELSE IF Truthy(end_time) /\ current_time > end_time
    THEN "Task has ended"
  ELSE "due"

\* A variant of the due-check whose start test is `<=`;
\* C4_DueCheck must tell it from DueCheck.
DueCheck_StartInclusive(start_time, end_time, last_run, repetition_interval, current_time) ==
  IF Truthy(start_time) /\ current_time <= start_time
    THEN "Not yet time to start"
  ELSE IF Truthy(end_time) /\ current_time > end_time
    THEN "Task has ended"
  ELSE IF /\ Truthy(last_run) /\ Truthy(repetition_interval)
          /\ current_time < last_run + repetition_interval * SECONDS_PER_MINUTE
    THEN "Not yet time for next repetition"
  ELSE "due"

\* ----------------------------------------------------------- due-check
\* The three tests execute_enhanced_task makes before it acquires a session.
DueCheck(start_time, end_time, last_run, repetition_interval, current_time) ==
  IF Truthy(start_time) /\ current_time < start_time
    THEN "Not yet time to start"
  ELSE IF Truthy(end_time) /\ current_time > end_time
    THEN "Task has ended"
  ELSE IF /\ Truthy(last_run) /\ Truthy(repetition_interval)
          /\ current_time < last_run + repetition_interval * SECONDS_PER_MINUTE
    THEN "Not yet time for next repetition"
  ELSE "due"

\* ----------------------------------------------------------- coroutines
IdleCo ==
  [pc |-> "idle", current_time |-> NULL, client |-> 0, targets |-> <<>>,
   success_count |-> 0, i |-> 0, phase |-> "none", success |-> FALSE,
   result |-> "none", forwarded |-> 0, raised |-> {}, before |-> NoRow,
   attempted |-> <<>>, disconnects |-> 0, swallowed |-> FALSE]

\* The handler thread before a group-joining run; the due-check before its
\* inputs are drawn.
NoJoin == [pc |-> "idle", phones |-> <<>>, phone |-> "none", client |-> 0, i |-> 0,
           n |-> 0, returned |-> {}]
NoDue == [pc |-> "idle", start_time |-> NULL, end_time |-> NULL, last_run |-> NULL,
          repetition_interval |-> NULL, current_time |-> NULL, verdict |-> "none"]

\* The handler thread before a call of add_and_join_group.
NoAj == [pc |-> "idle", kind |-> "none", group |-> 0, open |-> FALSE, folder |-> 0,
         attempt |-> 0, calls |-> 0, member |-> FALSE, rejected |-> FALSE, advertised |-> 0,
         wait_time |-> 0, elapsed |-> 0, ret |-> <<>>]

\* The event loop that get_userbot_client starts for a session: run_forever
\* in a thread of its own, nothing scheduled.
NewLoop == [alive |-> TRUE, ready |-> <<>>, stopping |-> FALSE, disconnect |-> "none"]

\* The main thread before a termination signal.
NoTerm == [pc |-> "running", todo |-> <<>>, phone |-> "none", warned |-> {},
           closed |-> FALSE, loops |-> [p \in Phones |-> NewLoop]]

\* The keys that have a row in the table clients, and the column user_id
\* of a key no user has activated.
Keys == {"c1", "c2"}
NoUser == "none"

\* The column user_id of the rows of clients as create_client leaves them,
\* and the dispatcher thread with no handler running.
NoInvitation ==
  [program |-> "enhanced", user_id |-> [c \in Keys |-> NoUser],
   status |-> [c \in Keys |-> "inactive"], pc |-> "idle", user |-> NoUser,
   code |-> "none", subscription_end |-> 0, refused |-> {}]

\* No deletion of an account under way, and check_tasks of src/frw.py not
\* inside get_userbot_client.
NoRemoval ==
  [pc |-> "idle", phone |-> "none", removed |-> {}, popped |-> {}, asked |-> {},
   stopped |-> {}, acquire |-> [pc |-> "idle", phone |-> "none", result |-> FALSE],
   returned |-> {}]

\* The threads that take the two thread-level locks.
Threads == {"main", "scheduler", "dispatcher"}

\* db_lock = threading.RLock() and userbots_lock = threading.Lock() free, the
\* main thread before the initialisation of the database, no other thread
\* started.
NoLocking ==
  [db_lock |-> [owner |-> "none", count |-> 0], userbots_lock |-> "none",
   initialised |-> FALSE, started |-> FALSE, signalled |-> FALSE, exited |-> FALSE,
   thread |-> [th \in Threads |-> [todo |-> <<>>, holds |-> {}]]]

\* get_message_from_link not called.
NoResolution ==
  [pc |-> "idle", link |-> <<>>, lookup |-> "none", calls |-> 0, outcome |-> "none",
   chat |-> <<>>, message_id |-> 0, detail |-> "none", cause |-> "none"]

\* check_tasks of src/frw.py before it calls execute_task.
NoLegacy == [pc |-> "idle", target_groups |-> <<>>, fallback_message_link |-> NoLink,
             i |-> 0, success_count |-> 0, attempted |-> <<>>, raised |-> {},
             returned |-> FALSE, disconnected |-> FALSE, committed |-> FALSE,
             seconds |-> 0, slept |-> 0, logged |-> 0]

\* The pcs at which a coroutine has entered the limiter and not yet left it.
InFlightPcs ==
  {"select", "complete", "gc_db", "gc_reg", "unavailable", "lock", "lock_set",
   "w_lock", "w_start", "w_fetch", "w_forward", "w_disconnect", "stats", "catch"}

InFlight == {t \in TaskIds : co[t].pc \in InFlightPcs}

Act(t) == <<"task", t>>
JoinAct == <<"join", 0>>

NewLock == [locked |-> FALSE, waiters |-> <<>>, woken |-> {}, loop |-> "none",
            holders |-> {}]

\* asyncio.Lock.release: raises RuntimeError when the lock is not locked,
\* otherwise unlocks and completes the future of the first waiter.
LockRelease(l, who) ==
  IF l.locked
    THEN [l EXCEPT !.locked = FALSE, !.holders = @ \ {who},
                   !.woken = IF l.waiters # <<>> THEN @ \cup {Head(l.waiters)} ELSE @]
    ELSE [l EXCEPT !.holders = @ \ {who}]

\* A step of a suspended coroutine: the scheduler thread is free and every
\* coroutine that gather created has had its first run.
CanResume == running = 0 /\ sched.toStart = <<>> /\ sched.pc = "gather"

\* Leaving execute_enhanced_task: the limiter slot is released.
Leave(t, c, res) ==
  /\ co' = [co EXCEPT ![t] = [c EXCEPT !.pc = "done", !.result = res]]
  /\ semaphore' = [semaphore EXCEPT !.value = @ + 1]
  /\ running' = 0

\* The frame of the steps that touch only the coroutine and the store.
UnchangedRegistry == UNCHANGED <<userbots, created, lock>>
UnchangedStatic ==
  UNCHANGED <<cfg, target_groups, userbots_table, admin_actions, join, due, aj, term, legacy, invitation, removal, resolution, locking>>

\* ------------------------------------------------------- the polling loop
\* check_enhanced_tasks, from `while True` to the gather: the query for the
\* active tasks, a fresh semaphore, one coroutine per active task.  A store
\* error is caught by the loop's handler, whose own log_event may raise.
check_enhanced_tasks_query ==
  /\ sched.pc = "query" /\ running = 0
  /\ \/ /\ semaphore' = [value |-> SEMAPHORE_LIMIT, waiters |-> <<>>]
        /\ IF ActiveTasks = <<>>
             THEN /\ sched' = [sched EXCEPT !.pc = "sleep", !.active_tasks = <<>>]
                  /\ co' = co
             ELSE /\ sched' = [sched EXCEPT !.pc = "gather",
                                            !.active_tasks = ActiveTasks,
                                            !.toStart = ActiveTasks]
                  /\ co' = [t \in TaskIds |->
                              IF tasks[t].status = "active"
                                THEN [IdleCo EXCEPT !.pc = "new"] ELSE co[t]]
        /\ UNCHANGED <<logs, budget>>
     \/ /\ budget.faults > 0
        /\ sched' = [sched EXCEPT !.pc = "sleep", !.active_tasks = <<>>]
        /\ logs' = log_event(logs, "Task Check Error", 0)
        /\ budget' = Spend(budget, 1)
        /\ UNCHANGED <<semaphore, co>>
     \/ /\ budget.faults > 0
        /\ sched' = [sched EXCEPT !.pc = "dead", !.active_tasks = <<>>]
        /\ budget' = Spend(budget, 1)
        /\ UNCHANGED <<semaphore, co, logs>>
  /\ UNCHANGED <<tasks, clients, running, now, attempts>>
  /\ UnchangedRegistry /\ UnchangedStatic

\* results[...][0] of the executions that returned a tuple with True first.
successful_executions ==
  Cardinality({k \in 1..Len(sched.active_tasks) :
                 co[sched.active_tasks[k]].result = "true"})

\* A variant of the step after the gather that does not wait for the
\* coroutines; C35_OneExecutionInFlight must tell it from
\* check_enhanced_tasks_gathered.
check_enhanced_tasks_gathered_NoWait ==
  /\ sched.pc = "gather" /\ running = 0 /\ sched.toStart = <<>>
  /\ sched' = [sched EXCEPT !.pc = "sleep"]
  /\ UNCHANGED <<logs, budget>>
  /\ UNCHANGED <<tasks, clients, semaphore, co, running, now, attempts>>
  /\ UnchangedRegistry /\ UnchangedStatic

\* check_enhanced_tasks after the gather: every coroutine has returned or
\* raised (return_exceptions=True); one summary entry if any succeeded.
check_enhanced_tasks_gathered ==
  /\ sched.pc = "gather" /\ running = 0 /\ sched.toStart = <<>>
  /\ \A k \in 1..Len(sched.active_tasks) : co[sched.active_tasks[k]].pc = "done"
  /\ \/ /\ successful_executions = 0
        /\ sched' = [sched EXCEPT !.pc = "sleep"]
        /\ UNCHANGED <<logs, budget>>
     \/ /\ successful_executions > 0
        /\ sched' = [sched EXCEPT !.pc = "sleep"]
        /\ logs' = log_event(logs, "Task Batch Completed", 0)
        /\ UNCHANGED budget
     \/ /\ successful_executions > 0 /\ budget.faults > 0
        /\ sched' = [sched EXCEPT !.pc = "sleep"]
        /\ logs' = log_event(logs, "Task Check Error", 0)
        /\ budget' = Spend(budget, 1)
     \/ /\ successful_executions > 0 /\ budget.faults > 0
        /\ sched' = [sched EXCEPT !.pc = "dead"]
        /\ budget' = Spend(budget, 1)
        /\ UNCHANGED logs
  /\ UNCHANGED <<tasks, clients, semaphore, co, running, now, attempts>>
  /\ UnchangedRegistry /\ UnchangedStatic

\* await asyncio.sleep(CHECK_TASKS_INTERVAL), then the next cycle.
check_enhanced_tasks_sleep ==
  /\ sched.pc = "sleep" /\ running = 0 /\ budget.cycles > 0
  /\ sched' = [sched EXCEPT !.pc = "query"]
  /\ now' = now + CHECK_TASKS_INTERVAL
  /\ budget' = [budget EXCEPT !.cycles = @ - 1]
  /\ co' = [t \in TaskIds |-> IdleCo]
  /\ UNCHANGED <<tasks, clients, logs, semaphore, running, attempts>>
  /\ UnchangedRegistry /\ UnchangedStatic

\* ------------------------------------------------- run_task_with_semaphore
\* A variant of the first run that enters the body without a slot;
\* C3_AtMostFiveInFlight must tell it from run_task_with_semaphore.
run_task_with_semaphore_NoLimit(t) ==
  /\ sched.pc = "gather" /\ running = 0
  /\ sched.toStart # <<>> /\ Head(sched.toStart) = t
  /\ sched' = [sched EXCEPT !.toStart = Tail(@)]
  /\ semaphore' = [semaphore EXCEPT !.value = @ - 1]
  /\ co' = [co EXCEPT ![t].pc = "select"]
  /\ running' = t
  /\ UNCHANGED <<tasks, clients, logs, now, budget, attempts>>
  /\ UnchangedRegistry /\ UnchangedStatic

\* The first run of a coroutine, in the order gather created them:
\* `async with semaphore` takes a slot or queues the coroutine.
run_task_with_semaphore(t) ==
  /\ sched.pc = "gather" /\ running = 0
  /\ sched.toStart # <<>> /\ Head(sched.toStart) = t
  /\ sched' = [sched EXCEPT !.toStart = Tail(@)]
  /\ IF semaphore.value > 0
       THEN /\ semaphore' = [semaphore EXCEPT !.value = @ - 1]
            /\ co' = [co EXCEPT ![t].pc = "select"]
            /\ running' = t
       ELSE /\ semaphore' = [semaphore EXCEPT !.waiters = Append(@, t)]
            /\ co' = [co EXCEPT ![t].pc = "w_sem"]
            /\ running' = 0
  /\ UNCHANGED <<tasks, clients, logs, now, budget, attempts>>
  /\ UnchangedRegistry /\ UnchangedStatic

\* A queued coroutine is woken by a release and takes the slot.
semaphore_acquired(t) ==
  /\ CanResume /\ co[t].pc = "w_sem"
  /\ semaphore.waiters # <<>> /\ Head(semaphore.waiters) = t
  /\ semaphore.value > 0
  /\ semaphore' = [value |-> semaphore.value - 1, waiters |-> Tail(semaphore.waiters)]
  /\ co' = [co EXCEPT ![t].pc = "select"]
  /\ running' = t
  /\ UNCHANGED <<tasks, clients, logs, sched, now, budget, attempts>>
  /\ UnchangedRegistry /\ UnchangedStatic

\* --------------------------------------------------- execute_enhanced_task
\* UPDATE tasks ... WHERE id = ?: no row, no change.
UpdateRow(tbl, t, row) == IF tbl[t].status = "absent" THEN tbl ELSE [tbl EXCEPT ![t] = row]

Raise(c, kind) == [c EXCEPT !.raised = @ \cup {kind}]

\* A variant of execute_enhanced_task_select whose query has no
\* `AND t.status = 'active'`; C36_PausedBeforeReadDoesNothing must tell it
\* from execute_enhanced_task_select.
execute_enhanced_task_select_NoStatusTest(t) ==
  /\ co[t].pc = "select" /\ running = t
  /\ LET c == [co[t] EXCEPT !.current_time = now, !.before = tasks[t]]
     IN \E f \in Faulty :
       IF f
         THEN /\ co' = [co EXCEPT ![t] = [Raise(c, "store") EXCEPT !.pc = "catch"]]
              /\ budget' = Spend(budget, 1)
              /\ attempts' = [attempts EXCEPT ![t].runs = @ + 1]
              /\ UNCHANGED <<semaphore, running>>
       ELSE IF tasks[t].status = "absent"
         THEN Leave(t, c, "false") /\ UNCHANGED <<budget, attempts>>
       ELSE IF ~cfg[t].unpack_ok
         THEN /\ co' = [co EXCEPT ![t] = [Raise(c, "data") EXCEPT !.pc = "catch"]]
              /\ attempts' = [attempts EXCEPT ![t].runs = @ + 1]
              /\ UNCHANGED <<semaphore, running, budget>>
       ELSE LET verdict == DueCheck(cfg[t].start_time, cfg[t].end_time,
                                    tasks[t].last_run, cfg[t].repetition_interval, now)
            IN CASE verdict = "due" ->
                      /\ co' = [co EXCEPT ![t] = [c EXCEPT !.pc = "gc_db"]]
                      /\ attempts' = [attempts EXCEPT ![t].runs = @ + 1]
                      /\ UNCHANGED <<semaphore, running, budget>>
                 [] verdict = "Task has ended" ->
                      /\ co' = [co EXCEPT ![t] = [c EXCEPT !.pc = "complete"]]
                      /\ UNCHANGED <<semaphore, running, budget, attempts>>
                 [] OTHER -> Leave(t, c, "false") /\ UNCHANGED <<budget, attempts>>
  /\ UNCHANGED <<tasks, clients, logs, sched, now>>
  /\ UnchangedRegistry /\ UnchangedStatic

\* The SELECT of the task row (joined with its client), the unpacking of
\* the row and the due-check.
execute_enhanced_task_select(t) ==
  /\ co[t].pc = "select" /\ running = t
  /\ LET c == [co[t] EXCEPT !.current_time = now, !.before = tasks[t]]
     IN \E f \in Faulty :
       IF f
         THEN /\ co' = [co EXCEPT ![t] = [Raise(c, "store") EXCEPT !.pc = "catch"]]
              /\ budget' = Spend(budget, 1)
              /\ attempts' = [attempts EXCEPT ![t].runs = @ + 1]
              /\ UNCHANGED <<semaphore, running>>
       ELSE IF tasks[t].status # "active"
         THEN Leave(t, c, "false") /\ UNCHANGED <<budget, attempts>>
       ELSE IF ~cfg[t].unpack_ok
         THEN /\ co' = [co EXCEPT ![t] = [Raise(c, "data") EXCEPT !.pc = "catch"]]
              /\ attempts' = [attempts EXCEPT ![t].runs = @ + 1]
              /\ UNCHANGED <<semaphore, running, budget>>
       ELSE LET verdict == DueCheck(cfg[t].start_time, cfg[t].end_time,
                                    tasks[t].last_run, cfg[t].repetition_interval, now)
            IN CASE verdict = "due" ->
                      /\ co' = [co EXCEPT ![t] = [c EXCEPT !.pc = "gc_db"]]
                      /\ attempts' = [attempts EXCEPT ![t].runs = @ + 1]
                      /\ UNCHANGED <<semaphore, running, budget>>
                 [] verdict = "Task has ended" ->
                      /\ co' = [co EXCEPT ![t] = [c EXCEPT !.pc = "complete"]]
                      /\ UNCHANGED <<semaphore, running, budget, attempts>>
                 [] OTHER -> Leave(t, c, "false") /\ UNCHANGED <<budget, attempts>>
  /\ UNCHANGED <<tasks, clients, logs, sched, now>>
  /\ UnchangedRegistry /\ UnchangedStatic

\* The history of the UPDATE that marks t completed: one more when it
\* changes a row.
Marked(t) ==
  [attempts EXCEPT ![t].completed = @ + (IF tasks[t].status = "absent" THEN 0 ELSE 1)]

\* A variant of execute_enhanced_task_complete that marks the task and goes
\* on to acquire the session; C17_EndedTaskCompletes must tell it from
\* execute_enhanced_task_complete.
execute_enhanced_task_complete_NoReturn(t) ==
  /\ co[t].pc = "complete" /\ running = t
  /\ tasks' = UpdateRow(tasks, t, [tasks[t] EXCEPT !.status = "completed"])
  /\ attempts' = [Marked(t) EXCEPT ![t].runs = @ + 1]
  /\ co' = [co EXCEPT ![t].pc = "gc_db"]
  /\ UNCHANGED <<clients, logs, sched, now, budget, semaphore, running>>
  /\ UnchangedRegistry /\ UnchangedStatic

\* current_time > end_time: UPDATE tasks SET status = 'completed' WHERE id = ?
execute_enhanced_task_complete(t) ==
  /\ co[t].pc = "complete" /\ running = t
  /\ \E f \in Faulty :
       IF f
         THEN /\ co' = [co EXCEPT ![t] = [Raise(@, "store") EXCEPT !.pc = "catch"]]
              /\ budget' = Spend(budget, 1)
              /\ attempts' = [attempts EXCEPT ![t].runs = @ + 1]
              /\ UNCHANGED <<tasks, semaphore, running>>
         ELSE /\ tasks' = UpdateRow(tasks, t, [tasks[t] EXCEPT !.status = "completed"])
              /\ attempts' = Marked(t)
              /\ Leave(t, co[t], "false")
              /\ UNCHANGED budget
  /\ UNCHANGED <<clients, logs, sched, now>>
  /\ UnchangedRegistry /\ UnchangedStatic

\* A variant of the account-unavailable path that stamps last_run as a
\* finished run does; C18_UnavailableFailsOnce must tell it from
\* execute_enhanced_task_unavailable.
execute_enhanced_task_unavailable_Stamps(t) ==
  /\ co[t].pc = "unavailable" /\ running = t
  /\ tasks' = UpdateRow(tasks, t, [tasks[t] EXCEPT !.failed_runs = @ + 1,
                                                   !.last_run = co[t].current_time])
  /\ logs' = log_event(logs, "Task Failed", t)
  /\ Leave(t, co[t], "false")
  /\ UNCHANGED <<clients, sched, now, attempts, budget>>
  /\ UnchangedRegistry /\ UnchangedStatic

\* A variant of execute_enhanced_task_unavailable that also marks the task
\* failed; C38_NeverSetsFailed must tell it from
\* execute_enhanced_task_unavailable.
execute_enhanced_task_unavailable_MarksFailed(t) ==
  /\ co[t].pc = "unavailable" /\ running = t
  /\ \/ /\ tasks' = UpdateRow(tasks, t, [tasks[t] EXCEPT !.failed_runs = @ + 1,
                                               !.status = "failed"])
        /\ logs' = log_event(logs, "Task Failed", t)
        /\ Leave(t, co[t], "false")
        /\ UNCHANGED budget
     \/ /\ budget.faults > 0
        /\ co' = [co EXCEPT ![t] = [Raise(@, "store") EXCEPT !.pc = "catch"]]
        /\ budget' = Spend(budget, 1)
        /\ UNCHANGED <<tasks, logs, semaphore, running>>
     \/ /\ budget.faults > 0
        /\ tasks' = UpdateRow(tasks, t, [tasks[t] EXCEPT !.failed_runs = @ + 1,
                                               !.status = "failed"])
        /\ co' = [co EXCEPT ![t] = [Raise(@, "log") EXCEPT !.pc = "catch"]]
        /\ budget' = Spend(budget, 1)
        /\ UNCHANGED <<logs, semaphore, running>>
  /\ UNCHANGED <<clients, sched, now, attempts>>
  /\ UnchangedRegistry /\ UnchangedStatic

\* The account is unavailable: failed_runs + 1, a 'Task Failed' entry.
execute_enhanced_task_unavailable(t) ==
  /\ co[t].pc = "unavailable" /\ running = t
  /\ \/ /\ tasks' = UpdateRow(tasks, t, [tasks[t] EXCEPT !.failed_runs = @ + 1])
        /\ logs' = log_event(logs, "Task Failed", t)
        /\ Leave(t, co[t], "false")
        /\ UNCHANGED budget
     \/ /\ budget.faults > 0
        /\ co' = [co EXCEPT ![t] = [Raise(@, "store") EXCEPT !.pc = "catch"]]
        /\ budget' = Spend(budget, 1)
        /\ UNCHANGED <<tasks, logs, semaphore, running>>
     \/ /\ budget.faults > 0
        /\ tasks' = UpdateRow(tasks, t, [tasks[t] EXCEPT !.failed_runs = @ + 1])
        /\ co' = [co EXCEPT ![t] = [Raise(@, "log") EXCEPT !.pc = "catch"]]
        /\ budget' = Spend(budget, 1)
        /\ UNCHANGED <<logs, semaphore, running>>
  /\ UNCHANGED <<clients, sched, now, attempts>>
  /\ UnchangedRegistry /\ UnchangedStatic

\* A variant of StatsRow that counts a failed forwarding as a run only;
\* C37_CountersOrdered must tell it from StatsRow.
StatsRow_RunOnly(row, success, current_time) ==
  IF success
    THEN [row EXCEPT !.last_run = current_time, !.total_runs = @ + 1,
                     !.successful_runs = @ + 1]
    ELSE [row EXCEPT !.last_run = current_time, !.total_runs = @ + 1]

\* A variant of StatsRow that counts every finished forwarding as failed;
\* C5_FallbackSemantics must tell it from StatsRow.
StatsRow_CountsFailed(row, success, current_time) ==
  [row EXCEPT !.last_run = current_time, !.total_runs = @ + 1, !.failed_runs = @ + 1]

\* The row after the statistics update of a finished forwarding.
StatsRow(row, success, current_time) ==
  IF success
    THEN [row EXCEPT !.last_run = current_time, !.total_runs = @ + 1,
                     !.successful_runs = @ + 1]
    ELSE [row EXCEPT !.last_run = current_time, !.total_runs = @ + 1,
                     !.failed_runs = @ + 1]

\* A variant of StatsClients that writes a value instead of adding to the
\* column; C14_NoLostUpdate must tell it from StatsClients.
StatsClients_Overwrite(cl, success, client_id) ==
  IF success /\ client_id \in DOMAIN cl THEN [cl EXCEPT ![client_id] = 1] ELSE cl

\* UPDATE clients SET total_messages_sent = total_messages_sent + 1
StatsClients(cl, success, client_id) ==
  IF success /\ client_id \in DOMAIN cl THEN [cl EXCEPT ![client_id] = @ + 1] ELSE cl

\* History: one more statistics update of task t has been committed.
Committed(t, success) ==
  [attempts EXCEPT ![t].stats = @ + 1, ![t].ok = @ + (IF success THEN 1 ELSE 0),
                   ![t].stamps = Append(@, co[t].current_time)]

\* `Update task statistics` and the log entry of the execution.
execute_enhanced_task_stats(t) ==
  /\ co[t].pc = "stats" /\ running = t
  /\ LET success == co[t].success
         row == StatsRow(tasks[t], success, co[t].current_time)
         cl == StatsClients(clients, success, cfg[t].client_id)
     IN \/ /\ tasks' = UpdateRow(tasks, t, row)
           /\ clients' = cl
           /\ logs' = log_event(logs, IF success THEN "Task Success" ELSE "Task Failed", t)
           /\ Leave(t, co[t], IF success THEN "true" ELSE "false")
           /\ attempts' = Committed(t, success)
           /\ UNCHANGED budget
        \/ /\ budget.faults > 0
           /\ co' = [co EXCEPT ![t] = [Raise(@, "store") EXCEPT !.pc = "catch"]]
           /\ budget' = Spend(budget, 1)
           /\ UNCHANGED <<tasks, clients, logs, semaphore, running, attempts>>
        \/ /\ budget.faults > 0
           /\ tasks' = UpdateRow(tasks, t, row)
           /\ clients' = cl
           /\ co' = [co EXCEPT ![t] = [Raise(@, "log") EXCEPT !.pc = "catch"]]
           /\ budget' = Spend(budget, 1)
           /\ attempts' = Committed(t, success)
           /\ UNCHANGED <<logs, semaphore, running>>
  /\ UNCHANGED <<sched, now>>
  /\ UnchangedRegistry /\ UnchangedStatic

\* A variant of the catch-all handler that logs the error and counts
\* nothing; C7_ExceptionsCaughtPerTask must tell it from the handler.
execute_enhanced_task_except_LogsOnly(t) ==
  /\ co[t].pc = "catch" /\ running = t
  /\ logs' = log_event(logs, "Task Execution Error", t)
  /\ Leave(t, co[t], "false")
  /\ UNCHANGED <<tasks, budget, clients, sched, now, attempts>>
  /\ UnchangedRegistry /\ UnchangedStatic

\* The catch-all handler: failed_runs + 1 and a 'Task Execution Error'
\* entry; an error of the handler's own store calls leaves the coroutine.
execute_enhanced_task_except(t) ==
  /\ co[t].pc = "catch" /\ running = t
  /\ \/ /\ tasks' = UpdateRow(tasks, t, [tasks[t] EXCEPT !.failed_runs = @ + 1])
        /\ logs' = log_event(logs, "Task Execution Error", t)
        /\ Leave(t, co[t], "false")
        /\ UNCHANGED budget
     \/ /\ budget.faults > 0
        /\ Leave(t, Raise(co[t], "handler"), "raised")
        /\ budget' = Spend(budget, 1)
        /\ UNCHANGED <<tasks, logs>>
     \/ /\ budget.faults > 0
        /\ tasks' = UpdateRow(tasks, t, [tasks[t] EXCEPT !.failed_runs = @ + 1])
        /\ Leave(t, Raise(co[t], "handler"), "raised")
        /\ budget' = Spend(budget, 1)
        /\ UNCHANGED logs
  /\ UNCHANGED <<clients, sched, now, attempts>>
  /\ UnchangedRegistry /\ UnchangedStatic

\* ------------------------------------------------------ get_userbot_client
\* The section under userbots_lock when the phone is not cached: a new loop
\* and its thread are started, then the client is constructed on that loop
\* (future.result(timeout=10)); on success the tuple is cached.
RegistryCreated(p) ==
  /\ userbots' = [userbots EXCEPT ![p] = created[p].clients + 1]
  /\ created' = [created EXCEPT ![p] = [clients |-> @.clients + 1, loops |-> @.loops + 1]]
  /\ lock' = [lock EXCEPT ![p] = NewLock]

\* The construction raised or timed out: the loop and thread stay, nothing
\* is cached.
RegistryCreateFailed(p) ==
  /\ created' = [created EXCEPT ![p].loops = @ + 1]
  /\ UNCHANGED <<userbots, lock>>

\* A variant of the lookup without `if result:`: every phone goes on to the
\* registry; C11_UnknownKeyUnavailable must tell it from the lookup.
get_userbot_client_select_NoRecordTest(t) ==
  /\ co[t].pc = "gc_db" /\ running = t
  /\ co' = [co EXCEPT ![t].pc = "gc_reg"]
  /\ UNCHANGED <<tasks, clients, semaphore, sched, running, now, attempts, logs, budget>>
  /\ UnchangedRegistry /\ UnchangedStatic

\* SELECT api_id, api_hash, session_file FROM userbots WHERE phone_number = ?
\* called from execute_enhanced_task.  A store error is caught in
\* get_userbot_client, whose log_event may raise to the caller.
get_userbot_client_select(t) ==
  /\ co[t].pc = "gc_db" /\ running = t
  /\ \/ /\ co' = [co EXCEPT ![t].pc = IF cfg[t].userbot_phone \in userbots_table
                                        THEN "gc_reg" ELSE "unavailable"]
        /\ UNCHANGED <<logs, budget>>
     \/ /\ budget.faults > 0
        /\ co' = [co EXCEPT ![t] = [Raise(@, "store") EXCEPT !.pc = "unavailable"]]
        /\ logs' = log_event(logs, "Get Userbot Client Error", 0)
        /\ budget' = Spend(budget, 1)
     \/ /\ budget.faults > 0
        /\ co' = [co EXCEPT ![t] = [Raise(@, "store") EXCEPT !.pc = "catch"]]
        /\ budget' = Spend(budget, 1)
        /\ UNCHANGED logs
  /\ UNCHANGED <<tasks, clients, semaphore, sched, running, now, attempts>>
  /\ UnchangedRegistry /\ UnchangedStatic

\* A variant of the section without `if phone_number not in userbots`;
\* C10_OneCachedTuple must tell it from get_userbot_client_cache.
get_userbot_client_cache_NoTest(t) ==
  /\ co[t].pc = "gc_reg" /\ running = t
  /\ RegistryCreated(cfg[t].userbot_phone)
  /\ co' = [co EXCEPT ![t] = [@ EXCEPT !.pc = "lock",
                                       !.client = created[cfg[t].userbot_phone].clients + 1]]
  /\ UNCHANGED <<tasks, clients, semaphore, sched, running, now, attempts, logs, budget>>
  /\ UnchangedStatic

\* The section under userbots_lock, called from execute_enhanced_task.
get_userbot_client_cache(t) ==
  /\ co[t].pc = "gc_reg" /\ running = t
  /\ LET p == cfg[t].userbot_phone
     IN \/ /\ userbots[p] # 0
           /\ co' = [co EXCEPT ![t] = [@ EXCEPT !.pc = "lock", !.client = userbots[p]]]
           /\ UNCHANGED <<userbots, created, lock, logs, budget>>
        \/ /\ userbots[p] = 0
           /\ RegistryCreated(p)
           /\ co' = [co EXCEPT ![t] = [@ EXCEPT !.pc = "lock",
                                                !.client = created[p].clients + 1]]
           /\ UNCHANGED <<logs, budget>>
        \/ /\ userbots[p] = 0 /\ budget.session > 0
           /\ RegistryCreateFailed(p)
           /\ co' = [co EXCEPT ![t] = [Raise(@, "session") EXCEPT !.pc = "unavailable"]]
           /\ logs' = log_event(logs, "Get Userbot Client Error", 0)
           /\ budget' = [budget EXCEPT !.session = @ - 1]
        \/ /\ userbots[p] = 0 /\ budget.session > 0 /\ budget.faults > 0
           /\ RegistryCreateFailed(p)
           /\ co' = [co EXCEPT ![t] = [Raise(Raise(@, "session"), "store") EXCEPT !.pc = "catch"]]
           /\ budget' = [budget EXCEPT !.session = @ - 1, !.faults = @ - 1, !.spent = @ + 1]
           /\ UNCHANGED logs
  /\ UNCHANGED <<tasks, clients, semaphore, sched, running, now, attempts>>
  /\ UnchangedStatic

\* -------------------------------------------------- execute_forwarding_task
\* A variant of Succeeded that asks for a forward to every target;
\* C6_SuccessIffForwarded must tell it from Succeeded.
Succeeded_EveryTarget(c) == c.success_count >= Len(c.targets)

\* return success_count > 0
Succeeded(c) == c.success_count > 0

\* Leaving the `async with lock` body with the value ret: the lock is
\* released (a release of an unlocked lock raises, and the function returns
\* False), then `finally` awaits client.disconnect().
ExitBody(t, c, ret) ==
  LET p == cfg[t].userbot_phone
      ok == lock[p].locked
  IN /\ lock' = [lock EXCEPT ![p] = LockRelease(@, Act(t))]
     /\ co' = [co EXCEPT ![t] = [(IF ok THEN c ELSE Raise(c, "lock"))
                                   EXCEPT !.pc = "w_disconnect", !.success = ok /\ ret]]
     /\ running' = 0

\* The coroutine goes on to its next await, or leaves the body.
Continue(t, c) ==
  IF c.pc = "exit"
    THEN ExitBody(t, c, Succeeded(c))
    ELSE /\ co' = [co EXCEPT ![t] = c]
         /\ running' = 0
         /\ UNCHANGED lock

\* get_message_from_link on a reference: an invalid one raises at once, the
\* others await the network (alias lookup, message fetch).
Resolve(c, link, phase) ==
  IF link = "invalid"
    THEN [Raise(c, "resolve") EXCEPT !.pc = "failed", !.phase = phase]
    ELSE [c EXCEPT !.pc = "w_fetch", !.phase = phase]

\* The handler of a failure of the primary message: the fallback, if any.
PrimaryFailed(t, c) ==
  IF cfg[t].fallback_message_link # NoLink
    THEN LET r == Resolve(c, cfg[t].fallback_message_link, "fallback")
         IN IF r.pc = "failed" THEN [r EXCEPT !.pc = "exit"] ELSE r
    ELSE [c EXCEPT !.pc = "exit"]

\* `if message_link:` and the resolution of the primary reference.
TryPrimary(t, c) ==
  IF cfg[t].message_link = NoLink
    THEN [c EXCEPT !.pc = "exit"]
    ELSE LET r == Resolve(c, cfg[t].message_link, "primary")
         IN IF r.pc = "failed" THEN PrimaryFailed(t, r) ELSE r

\* asyncio.Lock.acquire, the test of its fast path; when the lock is taken
\* the caller queues a future of its own loop (a lock bound to another loop
\* raises RuntimeError: the function returns False after the disconnect).
execute_forwarding_task_lock(t) ==
  /\ co[t].pc = "lock" /\ running = t
  /\ LET p == cfg[t].userbot_phone
         l == lock[p]
     IN IF ~l.locked /\ l.waiters = <<>>
          THEN /\ co' = [co EXCEPT ![t].pc = "lock_set"]
               /\ UNCHANGED <<lock, running>>
        ELSE IF l.loop \in {"none", "sched"}
          THEN /\ lock' = [lock EXCEPT ![p] = [l EXCEPT !.loop = "sched",
                                                        !.waiters = Append(@, Act(t))]]
               /\ co' = [co EXCEPT ![t].pc = "w_lock"]
               /\ running' = 0
        ELSE /\ co' = [co EXCEPT ![t] = [Raise(@, "lock") EXCEPT !.pc = "w_disconnect",
                                                                   !.success = FALSE]]
             /\ running' = 0
             /\ UNCHANGED lock
  /\ UNCHANGED <<tasks, clients, logs, semaphore, sched, now, budget, attempts,
                 userbots, created>>
  /\ UnchangedStatic

\* The fast path sets _locked; the body starts with `await client.start()`.
execute_forwarding_task_locked(t) ==
  /\ co[t].pc = "lock_set" /\ running = t
  /\ lock' = [lock EXCEPT ![cfg[t].userbot_phone] =
                [@ EXCEPT !.locked = TRUE, !.holders = @ \cup {Act(t)}]]
  /\ co' = [co EXCEPT ![t].pc = "w_start"]
  /\ running' = 0
  /\ UNCHANGED <<tasks, clients, logs, semaphore, sched, now, budget, attempts,
                 userbots, created>>
  /\ UnchangedStatic

\* A queued coroutine whose future a release completed takes the lock.
execute_forwarding_task_woken(t) ==
  /\ CanResume /\ co[t].pc = "w_lock"
  /\ LET p == cfg[t].userbot_phone
     IN /\ Act(t) \in lock[p].woken
        /\ lock' = [lock EXCEPT ![p] =
                      [@ EXCEPT !.locked = TRUE, !.holders = @ \cup {Act(t)},
                                !.woken = @ \ {Act(t)},
                                !.waiters = SelectSeq(@, LAMBDA w : w # Act(t))]]
  /\ co' = [co EXCEPT ![t].pc = "w_start"]
  /\ UNCHANGED <<tasks, clients, logs, semaphore, sched, running, now, budget,
                 attempts, userbots, created>>
  /\ UnchangedStatic

\* A variant of the body without `if not target_groups: return False`;
\* C19_NoTargetsFails must tell it from execute_forwarding_task_started.
execute_forwarding_task_started_NoTargetsTest(t) ==
  /\ CanResume /\ co[t].pc = "w_start"
  /\ \/ ExitBody(t, Raise(co[t], "session"), FALSE)
     \/ Continue(t, TryPrimary(t, [co[t] EXCEPT !.targets = TargetGroupsOf(t)]))
  /\ UNCHANGED <<tasks, clients, logs, semaphore, sched, now, attempts,
                 userbots, created, budget>>
  /\ UnchangedStatic

\* client.start() returns or raises; then the query for the target groups
\* and the resolution of the primary reference.
execute_forwarding_task_started(t) ==
  /\ CanResume /\ co[t].pc = "w_start"
  /\ \/ /\ ExitBody(t, Raise(co[t], "session"), FALSE)
        /\ UNCHANGED budget
     \/ /\ budget.faults > 0
        /\ ExitBody(t, Raise(co[t], "store"), FALSE)
        /\ budget' = Spend(budget, 1)
     \/ /\ TargetGroupsOf(t) = <<>>
        /\ ExitBody(t, co[t], FALSE)
        /\ UNCHANGED budget
     \/ /\ TargetGroupsOf(t) # <<>>
        /\ Continue(t, TryPrimary(t, [co[t] EXCEPT !.targets = TargetGroupsOf(t)]))
        /\ UNCHANGED budget
  /\ UNCHANGED <<tasks, clients, logs, semaphore, sched, now, attempts,
                 userbots, created>>
  /\ UnchangedStatic

\* The alias lookup and client.get_messages return, or one of them raises.
execute_forwarding_task_fetched(t) ==
  /\ CanResume /\ co[t].pc = "w_fetch"
  /\ \/ Continue(t, [co[t] EXCEPT !.pc = "w_forward", !.i = 1])
     \/ /\ co[t].phase = "primary"
        /\ Continue(t, PrimaryFailed(t, Raise(co[t], "resolve")))
     \/ /\ co[t].phase = "fallback"
        /\ Continue(t, [Raise(co[t], "resolve") EXCEPT !.pc = "exit"])
  /\ UNCHANGED <<tasks, clients, logs, semaphore, sched, now, budget, attempts,
                 userbots, created>>
  /\ UnchangedStatic

\* The next target of the loop over target_groups.
NextTarget(c) ==
  IF c.i < Len(c.targets) THEN [c EXCEPT !.i = @ + 1] ELSE [c EXCEPT !.pc = "exit"]

\* The history of the forwards: the target of the forward just awaited.
Attempted(c) == [c EXCEPT !.attempted = Append(@, c.targets[c.i])]

\* client.forward_messages to target i returns (success_count + 1 and the
\* random delay) or raises (logged, the loop continues).
execute_forwarding_task_forwarded(t) ==
  /\ CanResume /\ co[t].pc = "w_forward"
  /\ \/ Continue(t, NextTarget([Attempted(co[t]) EXCEPT !.success_count = @ + 1,
                                                        !.forwarded = @ + 1]))
     \/ Continue(t, NextTarget(Raise(Attempted(co[t]), "forward")))
  /\ UNCHANGED <<tasks, clients, logs, semaphore, sched, now, budget, attempts,
                 userbots, created>>
  /\ UnchangedStatic

\* A variant of the `finally` clause without the try around the
\* disconnect: its error reaches the caller's catch-all handler;
\* C21_AlwaysDisconnects must tell it from the clause.
execute_forwarding_task_disconnected_Raises(t) ==
  /\ CanResume /\ co[t].pc = "w_disconnect"
  /\ \/ /\ co' = [co EXCEPT ![t] = [@ EXCEPT !.pc = "stats", !.disconnects = @ + 1]]
        /\ UNCHANGED budget
     \/ /\ budget.disconnect > 0
        /\ co' = [co EXCEPT ![t] = [Raise(@, "disconnect") EXCEPT !.pc = "catch",
                                                                 !.disconnects = @ + 1]]
        /\ budget' = [budget EXCEPT !.disconnect = @ - 1]
  /\ running' = t
  /\ UNCHANGED <<tasks, clients, logs, semaphore, sched, now, attempts>>
  /\ UnchangedRegistry /\ UnchangedStatic

\* `finally: await client.disconnect()` returns or raises (swallowed); the
\* caller goes on with the statistics.
execute_forwarding_task_disconnected(t) ==
  /\ CanResume /\ co[t].pc = "w_disconnect"
  /\ \/ /\ co' = [co EXCEPT ![t] = [@ EXCEPT !.pc = "stats", !.disconnects = @ + 1]]
        /\ UNCHANGED budget
     \/ /\ budget.disconnect > 0
        /\ co' = [co EXCEPT ![t] = [@ EXCEPT !.pc = "stats", !.disconnects = @ + 1,
                                             !.swallowed = TRUE]]
        /\ budget' = [budget EXCEPT !.disconnect = @ - 1]
  /\ running' = t
  /\ UNCHANGED <<tasks, clients, logs, semaphore, sched, now, attempts>>
  /\ UnchangedRegistry /\ UnchangedStatic



\* --------------------------------------------------- join_groups_from_folder
\* The handler thread of handle_join_folder_groups: it runs the coroutine
\* join_groups_from_folder on an event loop of its own, so each of its steps
\* interleaves with the steps of the scheduler thread.
UnchangedByJoin ==
  UNCHANGED <<tasks, cfg, target_groups, userbots_table, clients, admin_actions,
              semaphore, sched, co, running, now, attempts, due, aj, term, legacy, invitation, removal, resolution, locking>>

\* The accounts assigned to the subscriber (clients.dedicated_userbots).
DedicatedUserbots == <<"p1">>

JoinFolder == 1

\* handle_join_folder_groups up to run_until_complete, and the SELECT of the
\* groups of the folder in join_groups_from_folder.
handle_join_folder_groups ==
  /\ join.pc = "idle" /\ budget.ops > 0
  /\ LET n == Cardinality({g \in target_groups : g.folder_id = JoinFolder})
     IN join' = IF n = 0 THEN [NoJoin EXCEPT !.pc = "done"]
                ELSE [NoJoin EXCEPT !.pc = "j_next", !.phones = DedicatedUserbots, !.n = n]
  /\ budget' = [budget EXCEPT !.ops = @ - 1]
  /\ UNCHANGED <<logs, userbots, created, lock>>
  /\ UnchangedByJoin

\* `for phone in userbots:` and the lookup of the account record in
\* get_userbot_client; no record: 'not available', the next phone.
join_groups_from_folder_next ==
  /\ join.pc = "j_next"
  /\ join' = IF join.phones = <<>> THEN [join EXCEPT !.pc = "done"]
             ELSE IF Head(join.phones) \in userbots_table
               THEN [join EXCEPT !.pc = "j_reg", !.phone = Head(join.phones),
                                 !.phones = Tail(join.phones)]
             ELSE [join EXCEPT !.phones = Tail(join.phones),
                               !.returned = @ \cup {<<Head(join.phones), 0>>}]
  /\ UNCHANGED <<logs, userbots, created, lock, budget>>
  /\ UnchangedByJoin

\* The section of get_userbot_client under userbots_lock, called from
\* join_groups_from_folder.
get_userbot_client_join ==
  /\ join.pc = "j_reg"
  /\ LET p == join.phone
     IN \/ /\ userbots[p] # 0
           /\ join' = [join EXCEPT !.pc = "j_lock", !.client = userbots[p],
                                   !.returned = @ \cup {<<p, userbots[p]>>}]
           /\ UNCHANGED <<userbots, created, lock, logs, budget>>
        \/ /\ userbots[p] = 0
           /\ RegistryCreated(p)
           /\ join' = [join EXCEPT !.pc = "j_lock", !.client = created[p].clients + 1,
                                   !.returned = @ \cup {<<p, created[p].clients + 1>>}]
           /\ UNCHANGED <<logs, budget>>
        \/ /\ userbots[p] = 0 /\ budget.session > 0
           /\ RegistryCreateFailed(p)
           /\ join' = [join EXCEPT !.pc = "j_next", !.client = 0,
                                   !.returned = @ \cup {<<p, 0>>}]
           /\ logs' = log_event(logs, "Get Userbot Client Error", 0)
           /\ budget' = [budget EXCEPT !.session = @ - 1]
  /\ UnchangedByJoin

\* `async with lock`: the test of the fast path of asyncio.Lock.acquire.
\* When the lock is taken the caller queues a future of its own loop; a
\* lock bound to the scheduler's loop raises RuntimeError ('Error with
\* userbot', the next phone).
join_groups_from_folder_lock ==
  /\ join.pc = "j_lock"
  /\ LET p == join.phone
         l == lock[p]
     IN IF ~l.locked /\ l.waiters = <<>>
          THEN /\ join' = [join EXCEPT !.pc = "j_lock_set"]
               /\ UNCHANGED lock
        ELSE IF l.loop \in {"none", "join"}
          THEN /\ lock' = [lock EXCEPT ![p] = [l EXCEPT !.loop = "join",
                                                        !.waiters = Append(@, JoinAct)]]
               /\ join' = [join EXCEPT !.pc = "j_wait"]
        ELSE /\ join' = [join EXCEPT !.pc = "j_next"]
             /\ UNCHANGED lock
  /\ UNCHANGED <<logs, userbots, created, budget>>
  /\ UnchangedByJoin

\* The fast path sets _locked; the body starts with `await client.start()`.
join_groups_from_folder_locked ==
  /\ join.pc = "j_lock_set"
  /\ lock' = [lock EXCEPT ![join.phone] =
                [@ EXCEPT !.locked = TRUE, !.holders = @ \cup {JoinAct}]]
  /\ join' = [join EXCEPT !.pc = "j_start"]
  /\ UNCHANGED <<logs, userbots, created, budget>>
  /\ UnchangedByJoin

\* The queued future was completed by a release: the lock is taken.
join_groups_from_folder_woken ==
  /\ join.pc = "j_wait" /\ JoinAct \in lock[join.phone].woken
  /\ lock' = [lock EXCEPT ![join.phone] =
                [@ EXCEPT !.locked = TRUE, !.holders = @ \cup {JoinAct},
                          !.woken = @ \ {JoinAct},
                          !.waiters = SelectSeq(@, LAMBDA w : w # JoinAct)]]
  /\ join' = [join EXCEPT !.pc = "j_start"]
  /\ UNCHANGED <<logs, userbots, created, budget>>
  /\ UnchangedByJoin

\* client.start() returns (the loop over the groups begins) or raises (the
\* lock is released, 'Error with userbot', the next phone).
join_groups_from_folder_started ==
  /\ join.pc = "j_start"
  /\ \/ /\ join' = [join EXCEPT !.pc = "j_join", !.i = 1]
        /\ UNCHANGED lock
     \/ /\ join' = [join EXCEPT !.pc = "j_next"]
        /\ lock' = [lock EXCEPT ![join.phone] = LockRelease(@, JoinAct)]
  /\ UNCHANGED <<logs, userbots, created, budget>>
  /\ UnchangedByJoin

\* The join request for group i and the random delay return, or the request
\* raises (recorded, the loop continues).
join_groups_from_folder_joined ==
  /\ join.pc = "j_join"
  /\ join' = IF join.i < join.n THEN [join EXCEPT !.i = @ + 1]
                                 ELSE [join EXCEPT !.pc = "j_disconnect"]
  /\ UNCHANGED <<logs, userbots, created, lock, budget>>
  /\ UnchangedByJoin

\* `await client.disconnect()` inside the lock, then the release.
join_groups_from_folder_disconnected ==
  /\ join.pc = "j_disconnect"
  /\ lock' = [lock EXCEPT ![join.phone] = LockRelease(@, JoinAct)]
  /\ join' = [join EXCEPT !.pc = "j_next"]
  /\ UNCHANGED <<logs, userbots, created, budget>>
  /\ UnchangedByJoin

Join ==
  \/ handle_join_folder_groups
  \/ join_groups_from_folder_next
  \/ get_userbot_client_join
  \/ join_groups_from_folder_lock
  \/ join_groups_from_folder_locked
  \/ join_groups_from_folder_woken
  \/ join_groups_from_folder_started
  \/ join_groups_from_folder_joined
  \/ join_groups_from_folder_disconnected

\* ------------------------------------------------------ add_and_join_group
\* The join operation of src/frw.py, run for one group reference by a
\* handler thread (process_group_links -> join_groups).  The network is the
\* environment: a request returns or is rejected with one of the errors the
\* function distinguishes.
UnchangedByAj ==
  UNCHANGED <<tasks, cfg, userbots_table, clients, logs, admin_actions, userbots,
              created, lock, semaphore, sched, co, running, now, budget, join,
              attempts, due, term, legacy, invitation, removal, resolution, locking>>

UrlKinds == {"public", "private", "addlist", "invalid"}
JoinGroupIds == {2, 3}
JoinOwner == "c1"
FolderIds == {1, 2}

RECURSIVE Pow2(_)
Pow2(k) == IF k = 0 THEN 1 ELSE 2 * Pow2(k - 1)

Min(a, b) == IF a < b THEN a ELSE b

\* PRIMARY KEY (group_id, added_by): is the key taken?
KeyTaken(tg, group_id, added_by) ==
  \E r \in tg : r.group_id = group_id /\ r.added_by = added_by

\* `return joined, detail`: the call is over.
Return(a, joined, detail) ==
  [a EXCEPT !.pc = "idle", !.calls = @ + 1,
            !.ret = Append(@, [joined |-> joined, detail |-> detail, rejected |-> a.rejected,
                               attempts |-> a.attempt + 1, folder |-> a.folder,
                               raised |-> FALSE])]

\* The call ends with an exception: gather(return_exceptions=True) puts the
\* exception into the results of join_groups in place of the pair.
Raised(a, cause) ==
  [a EXCEPT !.pc = "idle", !.calls = @ + 1,
            !.ret = Append(@, [joined |-> FALSE, detail |-> cause, rejected |-> a.rejected,
                               attempts |-> a.attempt + 1, folder |-> a.folder,
                               raised |-> TRUE])]

\* The errors the code means to treat as permanent and as unexpected.
Permanent == {"private", "expired", "forbidden"}
Transient == {"forbidden", "participant", "integrity"}

\* The except clauses of the attempt loop, tried in their order; w is the
\* wait a rate limit advertises.  FloodWaitError and ValueError are names
\* the module imports.  An exception of any other class reaches
\* `except telethon.errors.ChannelPrivateError`: the module binds no name
\* telethon (it has `from telethon import ...` only), so the evaluation of
\* the clause raises NameError, which leaves the function; the clauses
\* after it, `except Exception` with its backoff included, are never
\* reached.  An IntegrityError of the INSERT is no error of the network.
Failed(a0, err, w) ==
  LET a == IF err = "integrity" THEN a0 ELSE [a0 EXCEPT !.rejected = TRUE]
  IN CASE err = "flood" ->
            IF a.attempt < MAX_RETRIES - 1
              THEN [a EXCEPT !.pc = "a_sleep", !.advertised = w,
                             !.wait_time = Min(w, FLOOD_CAP) + BASE_DELAY * Pow2(a.attempt)]
              ELSE Return(a, FALSE, "flood wait")
       [] err = "value" -> Return(a, FALSE, "value error")
       [] err \in Permanent \cup Transient -> Raised(a, err)

\* A call of add_and_join_group(client, group_url, folder_id, added_by,
\* phone); the second call is for the same account, reference and owner.
add_and_join_group_call ==
  /\ aj.pc = "idle" /\ aj.calls < JoinCalls
  /\ \E folder \in FolderIds :
       IF aj.calls = 0
         THEN \E kind \in UrlKinds, group \in JoinGroupIds, open \in BOOLEAN :
                aj' = [aj EXCEPT !.pc = "a_entity", !.kind = kind, !.group = group,
                                 !.open = open, !.folder = folder]
         ELSE aj' = [aj EXCEPT !.pc = "a_entity", !.folder = folder, !.attempt = 0,
                               !.rejected = FALSE, !.advertised = 0, !.wait_time = 0,
                               !.elapsed = 0]
  /\ UNCHANGED target_groups
  /\ UnchangedByAj

\* parse_telegram_url and `await client.get_entity(identifier)`.
add_and_join_group_entity ==
  /\ aj.pc = "a_entity"
  /\ IF aj.kind = "invalid" THEN aj' = Failed(aj, "value", 0)
     ELSE IF aj.kind = "addlist" THEN aj' = Return(aj, FALSE, "addlist")
     ELSE \/ aj' = [aj EXCEPT !.pc = IF aj.kind = "private" THEN "a_import" ELSE "a_member"]
          \/ \E w \in FloodWaits : aj' = Failed(aj, "flood", w)
          \/ \E e \in {"value", "private", "forbidden"} : aj' = Failed(aj, e, 0)
  /\ UNCHANGED target_groups
  /\ UnchangedByAj

\* `await client(ImportChatInviteRequest(identifier))` for an invite link:
\* the account becomes a member; an account that is one already is rejected.
add_and_join_group_import ==
  /\ aj.pc = "a_import"
  /\ \/ /\ ~aj.member
        /\ aj' = [aj EXCEPT !.pc = "a_member", !.member = TRUE]
     \/ /\ aj.member
        /\ aj' = Failed(aj, "participant", 0)
     \/ \E w \in FloodWaits : aj' = Failed(aj, "flood", w)
     \/ aj' = Failed(aj, "expired", 0)
  /\ UNCHANGED target_groups
  /\ UnchangedByAj

\* check_membership: an error of get_permissions reads as 'no member'.
IsMember(a) == IF a.member THEN {TRUE, FALSE} ELSE {FALSE}

Checked(a, is_member) ==
  IF a.member /\ ~is_member THEN [a EXCEPT !.rejected = TRUE] ELSE a

TargetGroupRow(a) == [group_id |-> a.group, added_by |-> JoinOwner, folder_id |-> a.folder]

\* A variant of the member branch without the SELECT before the INSERT;
\* C12_JoinTwice must tell it from add_and_join_group_membership.
add_and_join_group_membership_NoSelect ==
  /\ aj.pc = "a_member"
  /\ \E is_member \in IsMember(aj) :
       IF is_member
         THEN IF KeyTaken(target_groups, aj.group, JoinOwner)
                THEN aj' = Failed(aj, "integrity", 0) /\ UNCHANGED target_groups
                ELSE /\ target_groups' = target_groups \cup {TargetGroupRow(aj)}
                     /\ aj' = Return(aj, TRUE, "already a member")
         ELSE /\ aj' = [Checked(aj, is_member) EXCEPT !.pc = "a_join"]
              /\ UNCHANGED target_groups
  /\ UnchangedByAj

\* `is_member = await check_membership(...)`; a member: the row is inserted
\* unless the SELECT finds it, and the call returns 'Already a member'.
add_and_join_group_membership ==
  /\ aj.pc = "a_member"
  /\ \E is_member \in IsMember(aj) :
       IF is_member
         THEN /\ target_groups' = IF KeyTaken(target_groups, aj.group, JoinOwner)
                                    THEN target_groups
                                    ELSE target_groups \cup {TargetGroupRow(aj)}
              /\ aj' = Return(aj, TRUE, "already a member")
         ELSE /\ aj' = [Checked(aj, is_member) EXCEPT !.pc = "a_join"]
              /\ UNCHANGED target_groups
  /\ UnchangedByAj

\* `await client(JoinChannelRequest(group_id))`: the account joins at once,
\* or its request waits for an approval.
add_and_join_group_join ==
  /\ aj.pc = "a_join"
  /\ \/ aj' = [aj EXCEPT !.pc = "a_member_after", !.member = @ \/ aj.open]
     \/ \E w \in FloodWaits : aj' = Failed(aj, "flood", w)
     \/ \E e \in {"private", "forbidden"} : aj' = Failed(aj, e, 0)
  /\ UNCHANGED target_groups
  /\ UnchangedByAj

\* `is_member_after_join`: a member: INSERT INTO target_groups (the primary
\* key rejects a second row of the group and owner); else 'pending'.
add_and_join_group_joined ==
  /\ aj.pc = "a_member_after"
  /\ \E is_member \in IsMember(aj) :
       IF is_member
         THEN IF KeyTaken(target_groups, aj.group, JoinOwner)
                THEN aj' = Failed(aj, "integrity", 0) /\ UNCHANGED target_groups
                ELSE /\ target_groups' = target_groups \cup {TargetGroupRow(aj)}
                     /\ aj' = Return(aj, TRUE, "joined")
         ELSE /\ aj' = Return(Checked(aj, is_member), FALSE, "pending")
              /\ UNCHANGED target_groups
  /\ UnchangedByAj

\* `await asyncio.sleep(wait_time); continue`: the next attempt.  join_groups
\* runs the call under asyncio.wait_for(..., timeout=30): a sleep that would
\* end after the 30 seconds is cancelled and wrapped_add_and_join returns
\* (False, 'Timeout').  The time of the requests is taken as negligible.
add_and_join_group_retry ==
  /\ aj.pc = "a_sleep"
  /\ IF aj.elapsed + aj.wait_time >= JOIN_TIMEOUT
       THEN aj' = Return(aj, FALSE, "timeout")
       ELSE aj' = [aj EXCEPT !.pc = "a_entity", !.attempt = @ + 1,
                             !.elapsed = @ + aj.wait_time]
  /\ UNCHANGED target_groups
  /\ UnchangedByAj

\* ------------------------------------------------------------------ shutdown
\* The handler of SIGTERM runs in the main thread; each cached session has an
\* event loop that runs in a thread of its own (run_forever).
UnchangedByTerm ==
  UNCHANGED <<tasks, cfg, target_groups, userbots_table, clients, admin_actions,
              semaphore, sched, co, running, now, join, attempts, due, aj, legacy, invitation, removal, resolution, locking>>

\* get_userbot_client called by a handler of the control surface: the
\* lookup of the record and the section under userbots_lock.
get_userbot_client_handler(p) ==
  /\ term.pc = "running" /\ budget.ops > 0
  /\ \/ /\ p \notin userbots_table \/ userbots[p] # 0
        /\ UNCHANGED <<userbots, created, lock, logs>>
        /\ budget' = [budget EXCEPT !.ops = @ - 1]
     \/ /\ p \in userbots_table /\ userbots[p] = 0
        /\ RegistryCreated(p)
        /\ budget' = [budget EXCEPT !.ops = @ - 1]
        /\ UNCHANGED logs
     \/ /\ p \in userbots_table /\ userbots[p] = 0 /\ budget.session > 0
        /\ RegistryCreateFailed(p)
        /\ logs' = log_event(logs, "Get Userbot Client Error", 0)
        /\ budget' = [budget EXCEPT !.ops = @ - 1, !.session = @ - 1]
  /\ UNCHANGED term
  /\ UnchangedByTerm

\* userbots.items(), in the order of a dict.
RECURSIVE ItemSeq(_)
ItemSeq(S) ==
  IF S = {} THEN <<>>
  ELSE LET p == CHOOSE a \in S : TRUE IN <<p>> \o ItemSeq(S \ {p})

\* shutdown(signum, frame): db.close(), then `with userbots_lock` and the
\* loop over the cached tuples.
shutdown ==
  /\ term.pc = "running"
  /\ term' = [term EXCEPT !.pc = "next", !.closed = TRUE,
                          !.todo = ItemSeq({p \in Phones : userbots[p] # 0})]
  /\ UNCHANGED <<userbots, created, lock, logs, budget>>
  /\ UnchangedByTerm

\* The next tuple: asyncio.run_coroutine_threadsafe(client.disconnect(),
\* loop) queues on the loop the callback that will create the task; with no
\* tuple left, sys.exit(0).
shutdown_disconnect ==
  /\ term.pc = "next"
  /\ term' = IF term.todo = <<>> THEN [term EXCEPT !.pc = "exited"]
             ELSE [term EXCEPT !.pc = "stop", !.phone = Head(term.todo),
                               !.todo = Tail(term.todo),
                               !.loops[Head(term.todo)].ready = Append(@, "create")]
  /\ UNCHANGED <<userbots, created, lock, logs, budget>>
  /\ UnchangedByTerm

\* loop.call_soon_threadsafe(loop.stop)
shutdown_stop ==
  /\ term.pc = "stop"
  /\ term' = [term EXCEPT !.pc = "join", !.loops[term.phone].ready = Append(@, "stop")]
  /\ UNCHANGED <<userbots, created, lock, logs, budget>>
  /\ UnchangedByTerm

\* thread.join(timeout=5) returns because the thread has ended.
shutdown_joined ==
  /\ term.pc = "join" /\ ~term.loops[term.phone].alive
  /\ term' = [term EXCEPT !.pc = "next"]
  /\ UNCHANGED <<userbots, created, lock, logs, budget>>
  /\ UnchangedByTerm

\* thread.join(timeout=5) returns after 5 seconds, the thread is alive:
\* logging.warning, and the loop goes on.
shutdown_timeout ==
  /\ term.pc = "join" /\ term.loops[term.phone].alive
  /\ term' = [term EXCEPT !.pc = "next", !.warned = @ \cup {term.phone}]
  /\ UNCHANGED <<userbots, created, lock, logs, budget>>
  /\ UnchangedByTerm

\* One callback of an iteration of the loop: the callback of
\* run_coroutine_threadsafe creates the task, whose first step is queued for
\* a later iteration; a step of client.disconnect() ends the coroutine or
\* leaves it waiting for the network; loop.stop sets the stopping flag.
RunCallback(l, cb, ends) ==
  CASE cb = "create" -> [l EXCEPT !.disconnect = "created", !.ready = Append(@, "step")]
    [] cb = "step" -> [l EXCEPT !.disconnect = IF ends THEN "done" ELSE "waiting"]
    [] cb = "stop" -> [l EXCEPT !.stopping = TRUE]

RECURSIVE RunBatch(_, _, _)
RunBatch(l, batch, ends) ==
  IF batch = <<>> THEN l ELSE RunBatch(RunCallback(l, Head(batch), ends), Tail(batch), ends)

\* BaseEventLoop._run_once under run_forever: the callbacks that are ready
\* when the iteration starts are run; then run_forever returns if the
\* stopping flag is set, and the thread ends.
run_loop(p) ==
  /\ term.pc # "exited"
  /\ term.loops[p].alive /\ term.loops[p].ready # <<>>
  /\ \E ends \in BOOLEAN :
       LET l == RunBatch([term.loops[p] EXCEPT !.ready = <<>>], term.loops[p].ready, ends)
       IN term' = [term EXCEPT !.loops[p] = [l EXCEPT !.alive = ~l.stopping]]
  /\ UNCHANGED <<userbots, created, lock, logs, budget>>
  /\ UnchangedByTerm

\* The network answers the disconnect: its next step is ready.
run_loop_io(p) ==
  /\ term.pc # "exited"
  /\ term.loops[p].alive /\ term.loops[p].disconnect = "waiting"
  /\ term' = [term EXCEPT !.loops[p].disconnect = "created", !.loops[p].ready = Append(@, "step")]
  /\ UNCHANGED <<userbots, created, lock, logs, budget>>
  /\ UnchangedByTerm

\* ------------------------------------------------ check_tasks (src/frw.py)
\* The coroutine execute_task that check_tasks of src/frw.py runs for a due
\* row of userbot_settings: the session is started under the account's
\* lock, the primary message is forwarded to the targets one by one, and
\* the fallback is forwarded to a target that refuses the primary's media.
UnchangedByLegacy ==
  UNCHANGED <<tasks, cfg, target_groups, userbots_table, clients, logs, admin_actions,
              userbots, created, lock, semaphore, sched, co, running, now, budget,
              join, attempts, due, aj, term, invitation, removal, resolution, locking>>

\* The target lists the query by folder returns, in the order of the store,
\* and the fallback references of the row.
LegacyTargetLists == {GroupSeq(S) : S \in SUBSET (1..LegacyTargets)}
LegacyFallbacks == {NoLink, "internal", "public", "invalid"}

\* An exception leaves the try block: `finally` disconnects, then the
\* exception reaches check_tasks.
Escapes(l, kind) == [l EXCEPT !.pc = "disconnect", !.raised = @ \cup {kind}]

\* The next iteration of `for target in target_groups`, or the statements
\* after the loop.
NextIteration(l) ==
  IF l.i < Len(l.target_groups) THEN [l EXCEPT !.pc = "forward", !.i = @ + 1]
                                ELSE [l EXCEPT !.pc = "stats"]

\* A forward of the message m to the target of the iteration was awaited.
LegacyAttempted(l, m) == [l EXCEPT !.attempted = Append(@, <<l.target_groups[l.i], m>>)]

\* asyncio.run_coroutine_threadsafe(execute_task(), loop): the lock is
\* taken and client.start() awaited.
execute_task ==
  /\ legacy.pc = "idle"
  /\ \E tg \in LegacyTargetLists, fb \in LegacyFallbacks :
       legacy' = [legacy EXCEPT !.pc = "start", !.target_groups = tg,
                                !.fallback_message_link = fb]
  /\ UnchangedByLegacy

\* client.start() returns (it is outside the try: when it raises nothing
\* disconnects); no target: return 0; else get_message_from_link on the
\* primary reference.
execute_task_started ==
  /\ legacy.pc = "start"
  /\ \/ legacy' = [legacy EXCEPT !.pc = "done", !.raised = @ \cup {"session"}]
     \/ /\ legacy.target_groups = <<>>
        /\ legacy' = [legacy EXCEPT !.pc = "disconnect", !.returned = TRUE]
     \/ /\ legacy.target_groups # <<>>
        /\ legacy' = [legacy EXCEPT !.pc = "fetch"]
  /\ UnchangedByLegacy

\* get_message_from_link(client, message_link) returns or raises.
execute_task_fetched ==
  /\ legacy.pc = "fetch"
  /\ \/ legacy' = [legacy EXCEPT !.pc = "forward", !.i = 1]
     \/ legacy' = Escapes(legacy, "resolve")
  /\ UnchangedByLegacy

\* client.forward_messages(target, message_id, chat) returns, or raises
\* FloodWaitError (sleep for the advertised seconds),
\* ChatSendMediaForbiddenError (the fallback, if any) or another exception
\* (one 'Forward Error' entry).
execute_task_forwarded ==
  /\ legacy.pc = "forward"
  /\ LET l == LegacyAttempted(legacy, "primary")
     IN \/ legacy' = NextIteration([l EXCEPT !.success_count = @ + 1])
        \/ \E seconds \in FloodWaits :
             legacy' = [l EXCEPT !.pc = "flood_sleep", !.seconds = seconds]
        \/ legacy' = IF l.fallback_message_link = NoLink
                       THEN NextIteration(l)
                     ELSE IF l.fallback_message_link = "invalid"
                       THEN Escapes(l, "resolve")
                     ELSE IF l.fallback_message_link = "internal"
                       THEN [l EXCEPT !.pc = "fallback_forward"]
                     ELSE [l EXCEPT !.pc = "fallback_fetch"]
        \/ legacy' = NextIteration([l EXCEPT !.logged = @ + 1])
  /\ UnchangedByLegacy

\* await asyncio.sleep(e.seconds) is over: the next target.
execute_task_slept ==
  /\ legacy.pc = "flood_sleep"
  /\ legacy' = NextIteration([legacy EXCEPT !.slept = @ + legacy.seconds, !.seconds = 0])
  /\ UnchangedByLegacy

\* get_message_from_link(client, fallback_message_link) inside the except
\* clause: the alias lookup returns or raises.
execute_task_fallback_fetched ==
  /\ legacy.pc = "fallback_fetch"
  /\ \/ legacy' = [legacy EXCEPT !.pc = "fallback_forward"]
     \/ legacy' = Escapes(legacy, "resolve")
  /\ UnchangedByLegacy

\* client.forward_messages(target, msg_id_fb, chat_fb) inside the except
\* clause returns, or raises out of the loop.
execute_task_fallback_forwarded ==
  /\ legacy.pc = "fallback_forward"
  /\ LET l == LegacyAttempted(legacy, "fallback")
     IN \/ legacy' = NextIteration([l EXCEPT !.success_count = @ + 1])
        \/ legacy' = Escapes(l, "forward")
  /\ UnchangedByLegacy

\* After the loop: last_run and the subscriber's counters, committed under
\* db_lock; return success_count.
execute_task_stats ==
  /\ legacy.pc = "stats"
  /\ legacy' = [legacy EXCEPT !.pc = "disconnect", !.returned = TRUE, !.committed = TRUE]
  /\ UnchangedByLegacy

\* finally: await client.disconnect()
execute_task_disconnected ==
  /\ legacy.pc = "disconnect"
  /\ legacy' = [legacy EXCEPT !.pc = "done", !.disconnected = TRUE]
  /\ UnchangedByLegacy

\* ------------------------------------------------------ the bulk handlers
\* UPDATE tasks SET status = <to> WHERE status = <from>, and its rowcount.
BulkUpdate(from, to) ==
  [t \in TaskIds |-> IF tasks[t].status = from THEN [tasks[t] EXCEPT !.status = to]
                                                ELSE tasks[t]]

Affected(from) == Cardinality({t \in TaskIds : tasks[t].status = from})

\* INSERT INTO admin_actions (admin_id, action_type, target_id, details);
\* the timestamp column defaults to the clock.
log_admin_action(a, action_type, affected_rows) ==
  a \cup {[action_type |-> action_type, details |-> affected_rows, timestamp |-> now]}

\* History: the completed rows have outlived one more bulk update.
Outlived ==
  [t \in TaskIds |-> IF tasks[t].status = "completed"
                       THEN [attempts[t] EXCEPT !.outlived = @ + 1] ELSE attempts[t]]

\* What a bulk handler leaves alone.  The handlers run in the dispatcher's
\* thread: they interleave with the scheduler between any two of its steps.
UnchangedByBulk ==
  UNCHANGED <<cfg, target_groups, userbots_table, clients, logs, userbots, created,
              lock, semaphore, sched, co, running, now, join, due, aj, term, legacy, invitation, removal, resolution, locking>>

\* A variant of handle_bulk_resume_all whose UPDATE has no WHERE status =
\* 'paused'; C9_CompletedIsTerminal must tell it from the handler.
handle_bulk_resume_all_Everything ==
  /\ budget.ops > 0
  /\ tasks' = [t \in TaskIds |-> IF tasks[t].status \in Statuses
                                   THEN [tasks[t] EXCEPT !.status = "active"]
                                   ELSE tasks[t]]
  /\ admin_actions' = log_admin_action(admin_actions, "BULK_RESUME", Affected("paused"))
  /\ attempts' = Outlived
  /\ budget' = [budget EXCEPT !.ops = @ - 1]
  /\ UnchangedByBulk

handle_bulk_pause_all ==
  /\ budget.ops > 0
  /\ tasks' = BulkUpdate("active", "paused")
  /\ admin_actions' = log_admin_action(admin_actions, "BULK_PAUSE", Affected("active"))
  /\ attempts' = Outlived
  /\ budget' = [budget EXCEPT !.ops = @ - 1]
  /\ UnchangedByBulk

handle_bulk_resume_all ==
  /\ budget.ops > 0
  /\ tasks' = BulkUpdate("paused", "active")
  /\ admin_actions' = log_admin_action(admin_actions, "BULK_RESUME", Affected("paused"))
  /\ attempts' = Outlived
  /\ budget' = [budget EXCEPT !.ops = @ - 1]
  /\ UnchangedByBulk

handle_bulk_restart_failed ==
  /\ budget.ops > 0
  /\ tasks' = BulkUpdate("failed", "active")
  /\ admin_actions' = log_admin_action(admin_actions, "BULK_RESTART_FAILED",
                                       Affected("failed"))
  /\ attempts' = Outlived
  /\ budget' = [budget EXCEPT !.ops = @ - 1]
  /\ UnchangedByBulk

\* DELETE FROM tasks WHERE status = 'completed'
handle_bulk_delete_completed ==
  /\ budget.ops > 0
  /\ tasks' = [t \in TaskIds |-> IF tasks[t].status = "completed" THEN NoRow
                                                                   ELSE tasks[t]]
  /\ admin_actions' = log_admin_action(admin_actions, "BULK_DELETE_COMPLETED",
                                       Affected("completed"))
  /\ budget' = [budget EXCEPT !.ops = @ - 1]
  /\ UNCHANGED attempts
  /\ UnchangedByBulk

\* ------------------------------------------------------------ the scenarios
\* The columns of a task row that the engine only reads.
Cfg(phone, link, fallback, start_time, end_time, interval, all, folder, unpack_ok) ==
  [userbot_phone |-> phone, message_link |-> link, fallback_message_link |-> fallback,
   start_time |-> start_time, end_time |-> end_time, repetition_interval |-> interval,
   send_to_all_groups |-> all, folder_id |-> folder, client_id |-> "c1",
   unpack_ok |-> unpack_ok]

\* The row c of a task created by the subscriber client_id.
OwnedBy(c, client_id) == [c EXCEPT !.client_id = client_id]

PlainCfg == Cfg("p1", "internal", NoLink, NULL, NULL, NULL, 0, 1, TRUE)

\* Rows as the control surface and the demo data create them: a recurring
\* task with a fallback, a task whose primary reference is invalid, a task
\* on an account without a record, a task that ends before the second poll, a task
\* on an empty folder that starts at the second poll, and a row that does not unpack into the 23 names.
ExecConfigs ==
  { Cfg("p1", "internal", "internal", NULL, NULL, 1, 0, 1, TRUE),
    Cfg("p1", "invalid", "public", NULL, NULL, NULL, 0, 1, TRUE),
    Cfg("p2", "internal", NoLink, NULL, NULL, 2, 0, 1, TRUE),
    Cfg("p1", "public", "invalid", T0, T0 + 30, NULL, 1, 1, TRUE),
    Cfg("p3", "internal", "internal", T0 + 60, NULL, 2, 0, 2, TRUE),
    Cfg("p1", "internal", NoLink, NULL, NULL, NULL, 0, 1, FALSE) }

\* Folder 1 holds two groups of subscriber c1, folder 2 is empty, and
\* subscriber c2 owns no group.
DemoGroups ==
  { [group_id |-> 1, added_by |-> "c1", folder_id |-> 1],
    [group_id |-> 2, added_by |-> "c1", folder_id |-> 1] }

\* The state after the module is imported: empty registry, the scheduler
\* thread about to make its first query.
InitEngine ==
  /\ target_groups = DemoGroups
  /\ locking = NoLocking
  /\ resolution = NoResolution
  /\ userbots_table = {"p1", "p3"}
  /\ clients = [c \in {"c1", "c2"} |-> 0]
  /\ logs = [k \in LogEvents \X (0..MaxTasks) |-> 0]
  /\ admin_actions = {}
  /\ userbots = [p \in Phones |-> 0]
  /\ created = [p \in Phones |-> [clients |-> 0, loops |-> 0]]
  /\ lock = [p \in Phones |-> NewLock]
  /\ semaphore = [value |-> SEMAPHORE_LIMIT, waiters |-> <<>>]
  /\ sched = [pc |-> "query", active_tasks |-> <<>>, toStart |-> <<>>]
  /\ co = [t \in TaskIds |-> IdleCo]
  /\ running = 0
  /\ now = T0
  /\ attempts = [t \in TaskIds |-> [runs |-> 0, outlived |-> 0, stats |-> 0, ok |-> 0, completed |-> 0,
                                      stamps |-> <<>>]]
  /\ join = NoJoin
  /\ aj = NoAj
  /\ term = NoTerm
  /\ legacy = NoLegacy
  /\ removal = NoRemoval

Init ==
  /\ InitEngine
  /\ invitation = NoInvitation
  /\ due = NoDue
  /\ tasks = [t \in TaskIds |-> IF t <= ExecTasks THEN NewRow("active") ELSE NoRow]
  /\ cfg \in {[t \in TaskIds |-> IF t <= ExecTasks THEN g[t] ELSE PlainCfg] :
                g \in [1..ExecTasks -> ExecConfigs]}
  /\ budget = [cycles |-> ExecCycles, faults |-> ExecFaults, spent |-> 0,
               session |-> ExecSessionFaults, disconnect |-> 0,
               ops |-> 0]

Scheduler ==
  \/ check_enhanced_tasks_query
  \/ check_enhanced_tasks_gathered
  \/ check_enhanced_tasks_sleep

Execution(t) ==
  \/ run_task_with_semaphore(t)
  \/ execute_enhanced_task_select(t)
  \/ execute_enhanced_task_complete(t)
  \/ get_userbot_client_select(t)
  \/ get_userbot_client_cache(t)
  \/ execute_enhanced_task_unavailable(t)
  \/ execute_forwarding_task_lock(t)
  \/ execute_forwarding_task_locked(t)
  \/ execute_forwarding_task_woken(t)
  \/ execute_forwarding_task_started(t)
  \/ execute_forwarding_task_fetched(t)
  \/ execute_forwarding_task_forwarded(t)
  \/ execute_forwarding_task_disconnected(t)
  \/ execute_enhanced_task_stats(t)
  \/ execute_enhanced_task_except(t)

Next ==
  \/ Scheduler
  \/ \E t \in TaskIds : Execution(t)

Spec == Init /\ [][Next]_vars

\* The scheduler's loop runs every coroutine that is ready, and every network
\* call returns or raises within the client's timeout: a step that stays
\* possible is taken.
SpecFair == Init /\ [][Next]_vars /\ WF_vars(Next)

\* ------------------------------------------------- the due-check on its own
\* The times and intervals a task row can hold: NULL or a positive number.
DueTimes == {T0 + k * SECONDS_PER_MINUTE : k \in (0 - DueSpan)..DueSpan}
DueColumns == {NULL} \cup DueTimes
DueIntervalColumns == {NULL} \cup 1..DueIntervals

\* Lines 700-715 of execute_enhanced_task applied to the drawn columns.
due_check ==
  /\ due.pc = "drawn"
  /\ due' = [due EXCEPT !.pc = "checked",
                        !.verdict = DueCheck(due.start_time, due.end_time, due.last_run,
                                             due.repetition_interval, due.current_time)]
  /\ UNCHANGED <<tasks, cfg, target_groups, userbots_table, clients, logs,
                 admin_actions, userbots, created, lock, semaphore, sched, co,
                 running, now, budget, join, attempts, aj, term, legacy, invitation, removal, resolution, locking>>

InitDue ==
  /\ InitEngine
  /\ invitation = NoInvitation
  /\ tasks = [t \in TaskIds |-> NoRow]
  /\ cfg = [t \in TaskIds |-> PlainCfg]
  /\ budget = [cycles |-> 0, faults |-> 0, spent |-> 0, session |-> 0, disconnect |-> 0,
               ops |-> 0]
  /\ \E s \in DueColumns, e \in DueColumns, l \in DueColumns,
        r \in DueIntervalColumns, c \in DueTimes :
       due = [pc |-> "drawn", start_time |-> s, end_time |-> e, last_run |-> l,
              repetition_interval |-> r, current_time |-> c, verdict |-> "none"]

NextDue == due_check

SpecDue == InitDue /\ [][NextDue]_vars

\* ------------------------------------------------ the limiter on its own
\* More due tasks than slots: task 1 forwards to folder 1, the others share
\* the accounts p1 and p3 and an empty folder.  The store and the session
\* constructions do not fail here.
LimiterCfg(t) ==
  IF t = 1 THEN PlainCfg
  ELSE IF t % 2 = 0 THEN Cfg("p1", "internal", NoLink, NULL, NULL, NULL, 0, 2, TRUE)
  ELSE OwnedBy(Cfg("p3", "internal", NoLink, NULL, NULL, NULL, 1, 1, TRUE), "c2")

InitLimiter ==
  /\ InitEngine
  /\ invitation = NoInvitation
  /\ due = NoDue
  /\ tasks = [t \in TaskIds |-> IF t <= LimiterTasks THEN NewRow("active") ELSE NoRow]
  /\ cfg = [t \in TaskIds |-> LimiterCfg(t)]
  /\ budget = [cycles |-> LimiterCycles, faults |-> 0, spent |-> 0, session |-> 0, disconnect |-> 0,
               ops |-> 0]

NextLimiter ==
  \/ Scheduler
  \/ \E t \in TaskIds :
       \/ run_task_with_semaphore(t)
       \/ semaphore_acquired(t)
       \/ execute_enhanced_task_select(t)
       \/ get_userbot_client_select(t)
       \/ get_userbot_client_cache(t)
       \/ execute_forwarding_task_lock(t)
       \/ execute_forwarding_task_locked(t)
       \/ execute_forwarding_task_woken(t)
       \/ execute_forwarding_task_started(t)
       \/ execute_forwarding_task_fetched(t)
       \/ execute_forwarding_task_forwarded(t)
       \/ execute_forwarding_task_disconnected(t)
       \/ execute_enhanced_task_stats(t)

SpecLimiter == InitLimiter /\ [][NextLimiter]_vars

\* ------------------------------------------- the status of a task on its own
\* Task 1 ends between the first two polls, task 2 is paused and has ended,
\* the others recur; all are on the account p2, which has no record, so an
\* execution that is due takes the account-unavailable path.
StatusCfg(t) ==
  CASE t = 1 -> Cfg("p2", "internal", NoLink, NULL, T0 + 30, NULL, 0, 1, TRUE)
    [] t = 2 -> Cfg("p2", "internal", NoLink, NULL, T0 - 60, NULL, 0, 1, TRUE)
    [] OTHER -> Cfg("p2", "internal", NoLink, NULL, NULL, 1, 0, 1, TRUE)

InitStatus ==
  /\ InitEngine
  /\ invitation = NoInvitation
  /\ due = NoDue
  /\ tasks = [t \in TaskIds |-> IF t > StatusTasks THEN NoRow
                                 ELSE IF t = 2 THEN NewRow("paused")
                                 ELSE NewRow("active")]
  /\ cfg = [t \in TaskIds |-> StatusCfg(t)]
  /\ budget = [cycles |-> StatusCycles, faults |-> 0, spent |-> 0, session |-> 0,
               disconnect |-> 0,
               ops |-> StatusOps]

Bulk ==
  \/ handle_bulk_pause_all
  \/ handle_bulk_resume_all
  \/ handle_bulk_restart_failed
  \/ handle_bulk_delete_completed

NextStatus ==
  \/ Scheduler
  \/ Bulk
  \/ \E t \in TaskIds :
       \/ run_task_with_semaphore(t)
       \/ execute_enhanced_task_select(t)
       \/ execute_enhanced_task_complete(t)
       \/ get_userbot_client_select(t)
       \/ execute_enhanced_task_unavailable(t)

SpecStatus == InitStatus /\ [][NextStatus]_vars

\* --------------------------------- the scheduler and a group-joining run
\* Tasks on the account p1 and a group-joining run of the subscriber whose
\* account is p1; a session construction may fail, the store does not.
InitLock ==
  /\ InitEngine
  /\ invitation = NoInvitation
  /\ due = NoDue
  /\ tasks = [t \in TaskIds |-> IF t <= LockTasks THEN NewRow("active") ELSE NoRow]
  /\ cfg = [t \in TaskIds |-> PlainCfg]
  /\ budget = [cycles |-> LockCycles, faults |-> 0, spent |-> 0,
               session |-> LockSessionFaults, disconnect |-> 0,
               ops |-> LockJoins]

NextLock ==
  \/ Scheduler
  \/ Join
  \/ \E t \in TaskIds :
       \/ run_task_with_semaphore(t)
       \/ execute_enhanced_task_select(t)
       \/ get_userbot_client_select(t)
       \/ get_userbot_client_cache(t)
       \/ execute_enhanced_task_unavailable(t)
       \/ execute_forwarding_task_lock(t)
       \/ execute_forwarding_task_locked(t)
       \/ execute_forwarding_task_woken(t)
       \/ execute_forwarding_task_started(t)
       \/ execute_forwarding_task_fetched(t)
       \/ execute_forwarding_task_forwarded(t)
       \/ execute_forwarding_task_disconnected(t)
       \/ execute_enhanced_task_stats(t)

SpecLock == InitLock /\ [][NextLock]_vars

\* ------------------------------------------------ the join operation on its own
\* A handler thread calls add_and_join_group JoinCalls times for one
\* reference; no task exists.
InitJoin ==
  /\ InitEngine
  /\ invitation = NoInvitation
  /\ due = NoDue
  /\ tasks = [t \in TaskIds |-> NoRow]
  /\ cfg = [t \in TaskIds |-> PlainCfg]
  /\ budget = [cycles |-> 0, faults |-> 0, spent |-> 0, session |-> 0, disconnect |-> 0,
               ops |-> 0]

NextJoin ==
  \/ add_and_join_group_call
  \/ add_and_join_group_entity
  \/ add_and_join_group_import
  \/ add_and_join_group_membership
  \/ add_and_join_group_join
  \/ add_and_join_group_joined
  \/ add_and_join_group_retry

SpecJoin == InitJoin /\ [][NextJoin]_vars

\* ------------------------------------------------------ shutdown on its own
\* Handlers acquire sessions, then the process receives SIGTERM.
InitShutdown ==
  /\ InitEngine
  /\ invitation = NoInvitation
  /\ due = NoDue
  /\ tasks = [t \in TaskIds |-> NoRow]
  /\ cfg = [t \in TaskIds |-> PlainCfg]
  /\ budget = [cycles |-> 0, faults |-> 0, spent |-> 0,
               session |-> ShutdownSessionFaults, disconnect |-> 0,
               ops |-> ShutdownAcquires]

NextShutdown ==
  \/ \E p \in Phones : get_userbot_client_handler(p)
  \/ shutdown
  \/ shutdown_disconnect
  \/ shutdown_stop
  \/ shutdown_joined
  \/ shutdown_timeout
  \/ \E p \in Phones : run_loop(p)
  \/ \E p \in Phones : run_loop_io(p)

SpecShutdown == InitShutdown /\ [][NextShutdown]_vars

\* One poll over tasks of the account p1 whose executions all obtain the
\* session: a task that forwards, a task whose primary reference is
\* invalid, a task on the empty folder; the disconnect may raise.
DisconnectConfigs ==
  { Cfg("p1", "internal", "internal", NULL, NULL, NULL, 0, 1, TRUE),
    Cfg("p1", "invalid", "public", NULL, NULL, NULL, 0, 1, TRUE),
    Cfg("p1", "internal", NoLink, NULL, NULL, NULL, 0, 2, TRUE) }

InitDisconnect ==
  /\ InitEngine
  /\ invitation = NoInvitation
  /\ due = NoDue
  /\ tasks = [t \in TaskIds |-> IF t <= DisconnectTasks THEN NewRow("active") ELSE NoRow]
  /\ cfg \in {[t \in TaskIds |-> IF t <= DisconnectTasks THEN g[t] ELSE PlainCfg] :
                g \in [1..DisconnectTasks -> DisconnectConfigs]}
  /\ budget = [cycles |-> 0, faults |-> ExecFaults, spent |-> 0, session |-> 0,
               disconnect |-> DisconnectFaults, ops |-> 0]

NextDisconnect ==
  \/ check_enhanced_tasks_query
  \/ check_enhanced_tasks_gathered
  \/ \E t \in TaskIds :
       \/ run_task_with_semaphore(t)
       \/ execute_enhanced_task_select(t)
       \/ get_userbot_client_select(t)
       \/ get_userbot_client_cache(t)
       \/ execute_enhanced_task_unavailable(t)
       \/ execute_forwarding_task_lock(t)
       \/ execute_forwarding_task_locked(t)
       \/ execute_forwarding_task_woken(t)
       \/ execute_forwarding_task_started(t)
       \/ execute_forwarding_task_fetched(t)
       \/ execute_forwarding_task_forwarded(t)
       \/ execute_forwarding_task_disconnected(t)
       \/ execute_enhanced_task_stats(t)
       \/ execute_enhanced_task_except(t)

SpecDisconnect == InitDisconnect /\ [][NextDisconnect]_vars

\* Recurring tasks over several polls: task t repeats every t + 1
\* minutes; the first forwards to the groups of folder 1, the others are
\* on the empty folder.
WindowCfg(t) ==
  Cfg("p1", "internal", NoLink, NULL, NULL, IF t = 1 THEN 2 ELSE t - 1, 0,
      IF t = 1 THEN 1 ELSE 2, TRUE)

InitWindow ==
  /\ InitEngine
  /\ invitation = NoInvitation
  /\ due = NoDue
  /\ tasks = [t \in TaskIds |-> IF t <= WindowTasks THEN NewRow("active") ELSE NoRow]
  /\ cfg = [t \in TaskIds |-> WindowCfg(t)]
  /\ budget = [cycles |-> WindowCycles, faults |-> 0, spent |-> 0, session |-> 0,
               disconnect |-> 0, ops |-> 0]

NextWindow ==
  \/ Scheduler
  \/ \E t \in TaskIds :
       \/ run_task_with_semaphore(t)
       \/ execute_enhanced_task_select(t)
       \/ get_userbot_client_select(t)
       \/ get_userbot_client_cache(t)
       \/ execute_forwarding_task_lock(t)
       \/ execute_forwarding_task_locked(t)
       \/ execute_forwarding_task_woken(t)
       \/ execute_forwarding_task_started(t)
       \/ execute_forwarding_task_fetched(t)
       \/ execute_forwarding_task_forwarded(t)
       \/ execute_forwarding_task_disconnected(t)
       \/ execute_enhanced_task_stats(t)

SpecWindow == InitWindow /\ [][NextWindow]_vars

\* Task 1 on the account p1, the other tasks on the account p3, all due at
\* every poll.  The network calls of task 1 need not return: every other
\* step that stays possible is taken.
StuckCfg(t) ==
  Cfg(IF t = 1 THEN "p1" ELSE "p3", "internal", NoLink, NULL, NULL, NULL, 0, 1, TRUE)

InitStuck ==
  /\ InitEngine
  /\ invitation = NoInvitation
  /\ due = NoDue
  /\ tasks = [t \in TaskIds |-> IF t <= StuckTasks THEN NewRow("active") ELSE NoRow]
  /\ cfg = [t \in TaskIds |-> StuckCfg(t)]
  /\ budget = [cycles |-> StuckCycles, faults |-> 0, spent |-> 0, session |-> 0,
               disconnect |-> 0, ops |-> 0]

\* The steps of an execution that the scheduler's loop runs by itself, and
\* those that wait for an answer of the network.
Local(t) ==
  \/ run_task_with_semaphore(t)
  \/ execute_enhanced_task_select(t)
  \/ get_userbot_client_select(t)
  \/ get_userbot_client_cache(t)
  \/ execute_forwarding_task_lock(t)
  \/ execute_forwarding_task_locked(t)
  \/ execute_forwarding_task_woken(t)
  \/ execute_enhanced_task_stats(t)

Network(t) ==
  \/ execute_forwarding_task_started(t)
  \/ execute_forwarding_task_fetched(t)
  \/ execute_forwarding_task_forwarded(t)
  \/ execute_forwarding_task_disconnected(t)

NextStuck ==
  \/ Scheduler
  \/ \E t \in TaskIds : Local(t)
  \/ \E t \in TaskIds : Network(t)

SpecStuck ==
  /\ InitStuck /\ [][NextStuck]_vars
  /\ WF_vars(Scheduler)
  /\ \A t \in TaskIds : WF_vars(Local(t))
  /\ \A t \in TaskIds \ {1} : WF_vars(Network(t))

\* check_tasks of src/frw.py running execute_task for one due row.
InitLegacy ==
  /\ InitEngine
  /\ invitation = NoInvitation
  /\ due = NoDue
  /\ tasks = [t \in TaskIds |-> NoRow]
  /\ cfg = [t \in TaskIds |-> PlainCfg]
  /\ budget = [cycles |-> 0, faults |-> 0, spent |-> 0, session |-> 0, disconnect |-> 0,
               ops |-> 0]

NextLegacy ==
  \/ execute_task
  \/ execute_task_started
  \/ execute_task_fetched
  \/ execute_task_forwarded
  \/ execute_task_slept
  \/ execute_task_fallback_fetched
  \/ execute_task_fallback_forwarded
  \/ execute_task_stats
  \/ execute_task_disconnected

SpecLegacy == InitLegacy /\ [][NextLegacy]_vars


\* ------------------------------------------------------------- properties
\* No execution of task t is under way.
Quiet(t) == co[t].pc \in {"idle", "done"}

\* The execution of t met no error of the store and none of the lock.
StoreHeld(t) == co[t].raised \cap {"store", "log", "handler", "lock"} = {}

\* What the finished execution of t did with the two messages.
PrimaryDidNotResolve(t) == co[t].phase = "fallback" \/ (co[t].phase = "primary" /\ "resolve" \in co[t].raised)
FallbackResolved(t) == co[t].phase = "fallback" /\ co[t].i > 0
FallbackFailed(t) == co[t].phase = "fallback" /\ co[t].i = 0

\* C1: after N execution attempts of a task, total_runs = N and
\* successful_runs + failed_runs = N (the statement of the claim; the
\* account-unavailable path and the catch-all handler break it).
C1_CountersEqualAttempts ==
  \A t \in TaskIds :
    Quiet(t) => /\ tasks[t].total_runs = attempts[t].runs
                /\ tasks[t].successful_runs + tasks[t].failed_runs = attempts[t].runs

\* C8: a store that raises on the active-task query or on a log write is
\* logged and skipped, and the polling loop never terminates (the statement
\* of the claim; the log_event of the loop's own handler raises out of it).
C8_LoopNeverTerminates == sched.pc # "dead"

\* C5: with a non-empty target set, a primary reference that fails to
\* resolve and a fallback that resolves and is forwarded at least once give
\* a successful execution and successful_runs + 1; a primary and a fallback
\* that both fail give a failed execution and failed_runs + 1.
C5_FallbackSemantics ==
  \A t \in TaskIds :
    (co[t].pc = "done" /\ StoreHeld(t) /\ co[t].targets # <<>> /\ PrimaryDidNotResolve(t)) =>
      /\ (FallbackResolved(t) /\ co[t].forwarded > 0) =>
           /\ co[t].result = "true"
           /\ tasks[t].successful_runs = co[t].before.successful_runs + 1
           /\ tasks[t].failed_runs = co[t].before.failed_runs
      /\ FallbackFailed(t) =>
           /\ co[t].result = "false"
           /\ tasks[t].failed_runs = co[t].before.failed_runs + 1
           /\ tasks[t].successful_runs = co[t].before.successful_runs

C5_Witness ==
  \E t \in TaskIds :
    /\ co[t].pc = "done" /\ StoreHeld(t) /\ PrimaryDidNotResolve(t) /\ FallbackResolved(t)
    /\ co[t].forwarded > 0 /\ co[t].result = "true"
    /\ \E u \in TaskIds : /\ tasks[u].failed_runs > 0 /\ co[u].pc = "done"
                          /\ PrimaryDidNotResolve(u) /\ FallbackFailed(u)

\* C6: an execution is reported and counted as successful exactly when at
\* least one forward (primary or fallback) completed without error.
C6_SuccessIffForwarded ==
  \A t \in TaskIds :
    (co[t].pc = "done" /\ StoreHeld(t)) =>
      /\ co[t].result = "true" <=> co[t].forwarded > 0
      /\ tasks[t].successful_runs = co[t].before.successful_runs + 1 <=> co[t].forwarded > 0

C6_Witness ==
  \E t, u \in TaskIds :
    /\ co[t].pc = "done" /\ co[t].forwarded = 1 /\ Len(co[t].targets) = 2
    /\ co[t].result = "true"
    /\ co[u].pc = "done" /\ co[u].forwarded = 0 /\ Len(co[u].targets) = 2
    /\ co[u].i = 2 /\ co[u].result = "false"

\* The exceptions of one execution that are not errors of the store.
OwnFaults == {"data", "session", "resolve", "forward"}

LimiterClosed == \A t \in TaskIds : co[t].pc \notin {"complete", "unavailable", "catch"}

\* C3: with the limit of 5 and more than 5 due tasks in one poll cycle, at
\* no instant are more than 5 executions in flight; the others have not
\* started, are queued for a slot or have finished, and the free slots are
\* exactly those not taken.
C3_AtMostFiveInFlight ==
  /\ Cardinality(InFlight) <= 5
  /\ semaphore.value = 5 - Cardinality(InFlight)
  /\ \A t \in TaskIds :
       co[t].pc = "w_sem" <=> \E k \in 1..Len(semaphore.waiters) : semaphore.waiters[k] = t

C3_Witness ==
  /\ Len(sched.active_tasks) > 5
  /\ Cardinality(InFlight) = 5
  /\ \E t \in TaskIds : co[t].pc = "w_sem"
  /\ \E t \in TaskIds : co[t].pc = "w_disconnect"

\* C4: the due-check says not due when start_time is set and now is before
\* it, when end_time is set and now is after it, when last_run and the
\* interval are set and now is before last_run + interval; it says due
\* otherwise, and its verdict depends on these five values only.
C4_DueCheck ==
  due.pc = "checked" =>
    LET notStarted == due.start_time # NULL /\ due.current_time < due.start_time
        ended == due.end_time # NULL /\ due.current_time > due.end_time
        tooSoon == /\ due.last_run # NULL /\ due.repetition_interval # NULL
                   /\ due.current_time <
                        due.last_run + due.repetition_interval * SECONDS_PER_MINUTE
    IN /\ due.verdict = "due" <=> ~notStarted /\ ~ended /\ ~tooSoon
       /\ notStarted => due.verdict = "Not yet time to start"
       /\ (~notStarted /\ ended) => due.verdict = "Task has ended"

C4_Witness ==
  /\ due.pc = "checked" /\ due.verdict = "due"
  /\ due.start_time = due.current_time /\ due.end_time = due.current_time
  /\ due.last_run # NULL /\ due.repetition_interval # NULL
  /\ due.current_time = due.last_run + due.repetition_interval * SECONDS_PER_MINUTE

\* The steps of SpecStatus cover every step that is enabled in it.
StatusClosed ==
  \A t \in TaskIds : co[t].pc \in {"idle", "new", "select", "complete", "gc_db",
                                    "unavailable", "done"}

\* C9: completed is terminal for the scheduler and the bulk operations: no
\* step changes the status of a completed task except its deletion, a poll
\* never selects a completed task, and no execution of it is under way.
C9_CompletedIsTerminal ==
  /\ [][\A t \in TaskIds :
          tasks[t].status = "completed" => tasks'[t].status \in {"completed", "absent"}]_vars
  /\ [][(sched.pc = "query" /\ sched'.pc = "gather") =>
          \A k \in 1..Len(sched'.active_tasks) :
            tasks[sched'.active_tasks[k]].status = "active"]_vars
  /\ [](\A t \in TaskIds : tasks[t].status = "completed" => co[t].pc \in {"idle", "done"})

C9_Witness ==
  \E t \in TaskIds :
    /\ tasks[t].status = "completed" /\ attempts[t].outlived >= 3
    /\ {"BULK_PAUSE", "BULK_RESUME", "BULK_RESTART_FAILED"} \subseteq
         {r.action_type : r \in admin_actions}
    /\ sched.pc = "gather" /\ now = T0 + 2 * CHECK_TASKS_INTERVAL
    /\ \A k \in 1..Len(sched.active_tasks) : sched.active_tasks[k] # t

\* The steps of SpecLock cover every step that is enabled in it.
LockClosed == \A t \in TaskIds : co[t].pc \notin {"complete", "catch", "w_sem"}

\* C2: at no instant do two concurrent activities (two task executions on
\* one account, or a task execution and a group-joining run) both hold the
\* mutex of the same account (the statement of the claim; the lock is an
\* asyncio.Lock shared by the loops of two threads).
C2_MutexHeldByOne == \A p \in Phones : Cardinality(lock[p].holders) <= 1

\* C10 as stated: every acquire for a key with a record returns the cached
\* tuple, and one session and one execution context are created for it.
C10_AlwaysTheCachedTuple ==
  /\ \A t \in TaskIds :
       co[t].pc = "unavailable" => cfg[t].userbot_phone \notin userbots_table
  /\ \A p \in userbots_table : <<p, 0>> \notin join.returned
  /\ \A p \in Phones : created[p].clients <= 1 /\ created[p].loops <= 1

\* C10 amended: every acquire that returns a session, from either thread,
\* returns the one cached tuple of the key; once a tuple is cached it is
\* never replaced and no session or execution context is created for the
\* key again; one session at most is ever cached for a key.
C10_OneCachedTuple ==
  /\ [](\A p \in Phones :
         /\ created[p].clients <= 1
         /\ userbots[p] \in {0, 1}
         /\ userbots[p] = created[p].clients
         /\ \A r \in join.returned : r[1] = p /\ r[2] # 0 => r[2] = userbots[p]
         /\ \A t \in TaskIds :
              (cfg[t].userbot_phone = p /\ co[t].client # 0) => co[t].client = userbots[p])
  /\ [][\A p \in Phones :
          userbots[p] # 0 => userbots'[p] = userbots[p] /\ created'[p] = created[p]]_vars

C10_Witness ==
  /\ <<"p1", 1>> \in join.returned
  /\ \E t \in TaskIds : cfg[t].userbot_phone = "p1" /\ co[t].client = 1
                          /\ co[t].pc = "w_lock"
  /\ created["p1"].loops = 2 /\ userbots["p1"] = 1

\* C11: an acquire for a phone that has no account record returns the
\* 'unavailable' value without raising (the store answering the lookup),
\* creates no session and no execution context, and leaves the registry as
\* it was; no session is ever cached or constructed for such a phone.
C11_UnknownKeyUnavailable ==
  /\ [](\A p \in Phones \ userbots_table :
         userbots[p] = 0 /\ created[p] = [clients |-> 0, loops |-> 0])
  /\ [][\A t \in TaskIds :
          (/\ co[t].pc = "gc_db" /\ co'[t].pc # "gc_db"
           /\ cfg[t].userbot_phone \notin userbots_table
           /\ budget'.spent = budget.spent) =>
            /\ co'[t].pc = "unavailable" /\ co'[t].client = 0
            /\ co'[t].raised = co[t].raised
            /\ userbots' = userbots /\ created' = created /\ lock' = lock]_vars

C11_Witness ==
  \E t, u \in TaskIds :
    /\ cfg[t].userbot_phone \notin userbots_table
    /\ co[t].pc = "unavailable" /\ co[t].raised = {} /\ co[t].client = 0
    /\ created[cfg[t].userbot_phone].loops = 0
    /\ co[u].pc = "w_start" /\ userbots[cfg[u].userbot_phone] = 1

\* No two rows of target_groups have the same group and owner.
OneRowPerGroupAndOwner ==
  \A r1, r2 \in target_groups :
    (r1.group_id = r2.group_id /\ r1.added_by = r2.added_by) => r1 = r2

C13_DisconnectedBeforeExit ==
  term.pc = "exited" =>
    \A p \in Phones :
      userbots[p] # 0 =>
        \/ p \in term.warned
        \/ term.loops[p].disconnect = "done" /\ ~term.loops[p].alive

\* The sum of f over the set S of tasks.
RECURSIVE Sum(_, _)
Sum(f, S) ==
  IF S = {} THEN 0
  ELSE LET t == CHOOSE x \in S : TRUE IN f[t] + Sum(f, S \ {t})

SessionPcs == {"w_start", "w_fetch", "w_forward", "w_disconnect"}

\* Two executions on the same account, the first awaiting its disconnect
\* while the second has a request of its own on the session.
DisconnectInterleaves(t, u) ==
  /\ t # u
  /\ cfg[t].userbot_phone = cfg[u].userbot_phone
  /\ co[t].pc = "w_disconnect"
  /\ co[u].pc \in {"w_start", "w_fetch", "w_forward"}

\* C15: every connect, use and disconnect of an account's session by an
\* execution is performed while that execution holds the account's mutex,
\* the final disconnect included, so a disconnect by one task never
\* interleaves with another task's requests on the same account.
C15_SessionUsedUnderMutex ==
  /\ \A t \in TaskIds :
       co[t].pc \in SessionPcs => Act(t) \in lock[cfg[t].userbot_phone].holders
  /\ \A t, u \in TaskIds : ~DisconnectInterleaves(t, u)

\* The second conjunct of C15 alone.
C15_NoInterleaving == \A t, u \in TaskIds : ~DisconnectInterleaves(t, u)


\* ------------------------------------------------------------------- C16
\* The finished execution of t resolved the primary message and every one
\* of its forwards failed.
EveryPrimaryForwardFailed(t) ==
  /\ co[t].phase = "primary" /\ co[t].i = Len(co[t].targets) /\ co[t].i > 0
  /\ co[t].forwarded = 0

\* C16: with a fallback reference configured and a non-empty target set,
\* the fallback is attempted against every target both when the primary
\* reference fails to resolve and when the primary resolves but every
\* forward of it fails.
C16_FallbackAfterFailedForwards ==
  \A t \in TaskIds :
    (/\ co[t].pc = "done" /\ StoreHeld(t) /\ "session" \notin co[t].raised
     /\ co[t].targets # <<>> /\ cfg[t].fallback_message_link # NoLink) =>
      /\ (PrimaryDidNotResolve(t) /\ FallbackResolved(t)) => co[t].i = Len(co[t].targets)
      /\ PrimaryDidNotResolve(t) => co[t].phase = "fallback"
      /\ ~EveryPrimaryForwardFailed(t)

\* The first half of C16 alone: a primary that fails to resolve.
C16_FallbackAfterFailedResolution ==
  \A t \in TaskIds :
    (/\ co[t].pc = "done" /\ StoreHeld(t) /\ "session" \notin co[t].raised
     /\ co[t].targets # <<>> /\ cfg[t].fallback_message_link # NoLink) =>
      /\ (PrimaryDidNotResolve(t) /\ FallbackResolved(t)) => co[t].i = Len(co[t].targets)
      /\ PrimaryDidNotResolve(t) => co[t].phase = "fallback"


\* ------------------------------------------------------------------- C17
\* The execution of t read an active row whose end_time had passed.
CheckedAfterEnd(t) ==
  /\ co[t].before.status = "active" /\ cfg[t].unpack_ok
  /\ cfg[t].end_time # NULL /\ co[t].current_time # NULL
  /\ co[t].current_time > cfg[t].end_time

\* C17: an active task with end_time set that is checked at now > end_time
\* is persisted as completed; its execution acquires no session and
\* attempts no forward, its counters stay as they were; the transition
\* happens once per task, and no later poll selects the task.
C17_EndedTaskCompletes ==
  /\ [](\A t \in TaskIds : attempts[t].completed <= 1)
  /\ [](\A t \in TaskIds :
          (CheckedAfterEnd(t) /\ co[t].pc = "done" /\ StoreHeld(t)) =>
            /\ tasks[t].status \in {"completed", "absent"}
            /\ attempts[t].completed = 1
            /\ co[t].client = 0 /\ co[t].i = 0 /\ co[t].forwarded = 0
            /\ co[t].result = "false"
            /\ tasks[t].status = "completed" =>
                 tasks[t] = [co[t].before EXCEPT !.status = "completed"])
  /\ [][\A t \in TaskIds :
          (CheckedAfterEnd(t) /\ co[t].pc \in {"select", "complete"} /\ StoreHeld(t)) =>
            co'[t].pc \in {"select", "complete", "done", "catch"}]_vars
  /\ [][(sched.pc = "query" /\ sched'.pc = "gather") =>
          \A k \in 1..Len(sched'.active_tasks) :
            attempts[sched'.active_tasks[k]].completed = 0]_vars

\* The third poll runs without task 1, which the second poll completed.
C17_Witness ==
  /\ now = T0 + 2 * CHECK_TASKS_INTERVAL /\ sched.pc = "gather"
  /\ tasks[1].status = "completed" /\ attempts[1].completed = 1
  /\ tasks[1].failed_runs = 1
  /\ \A k \in 1..Len(sched.active_tasks) : sched.active_tasks[k] # 1
  /\ sched.active_tasks # <<>>


\* ------------------------------------------------------------------- C18
\* The polls made so far.
Polls == (now - T0) \div CHECK_TASKS_INTERVAL + 1

\* A task without time window whose account has no record: every poll finds
\* it due and its session unavailable.
NoAccount(t) ==
  /\ tasks[t].status # "absent" /\ cfg[t].unpack_ok
  /\ cfg[t].userbot_phone \notin userbots_table
  /\ ~Truthy(cfg[t].start_time) /\ ~Truthy(cfg[t].end_time)

\* C18: an execution that finds the account's session unavailable adds
\* exactly 1 to failed_runs and one 'Task Failed' entry, attempts no
\* forward and leaves status, last_run and the other counters unchanged;
\* it happens once per poll, and the next poll attempts the task again.
C18_UnavailableFailsOnce ==
  /\ [][\A t \in TaskIds :
          (co[t].pc = "unavailable" /\ co'[t].pc = "done") =>
            /\ tasks' = [tasks EXCEPT ![t].failed_runs = @ + 1]
            /\ logs' = log_event(logs, "Task Failed", t)
            /\ co'[t].result = "false" /\ co'[t].forwarded = 0 /\ co'[t].i = 0
            /\ co'[t].client = 0
            /\ UNCHANGED <<clients, userbots, lock>>]_vars
  /\ [](\A t \in TaskIds :
          (NoAccount(t) /\ sched.pc = "sleep" /\ budget.spent = 0) =>
            /\ tasks[t] = [NewRow("active") EXCEPT !.failed_runs = Polls]
            /\ logs[<<"Task Failed", t>>] = Polls)

\* After the second poll the task on the account without record has failed
\* twice.
C18_Witness ==
  /\ sched.pc = "sleep" /\ budget.spent = 0 /\ now = T0 + CHECK_TASKS_INTERVAL
  /\ \E t \in TaskIds :
       /\ NoAccount(t) /\ tasks[t].failed_runs = 2 /\ tasks[t].last_run = NULL
       /\ logs[<<"Task Failed", t>>] = 2


\* ------------------------------------------------------------------- C19
\* The finished execution of t acquired the session, connected and found
\* no target group.
FoundNoTargets(t) ==
  /\ co[t].pc = "done" /\ co[t].client # 0 /\ "session" \notin co[t].raised
  /\ TargetGroupsOf(t) = <<>>

\* C19: a due task whose target set is empty (every group of a subscriber
\* who owns none, or a folder without groups) fails without raising: no
\* reference is resolved and no forward attempted, the run is counted with
\* failed_runs + 1, and the status stays active.
C19_NoTargetsFails ==
  \A t \in TaskIds :
    /\ co[t].pc \in {"w_fetch", "w_forward"} => TargetGroupsOf(t) # <<>>
    /\ FoundNoTargets(t) =>
         /\ co[t].result = "false" /\ co[t].raised = {}
         /\ co[t].phase = "none" /\ co[t].i = 0 /\ co[t].forwarded = 0
         /\ tasks[t].failed_runs = co[t].before.failed_runs + 1
         /\ tasks[t].successful_runs = co[t].before.successful_runs
         /\ tasks[t].status = "active"
         /\ logs[<<"Task Failed", t>>] > 0

C19_Witness ==
  /\ \E t \in TaskIds : /\ cfg[t].send_to_all_groups # 0 /\ FoundNoTargets(t)
                        /\ tasks[t].failed_runs = 1 /\ tasks[t].status = "active"
  /\ \E u \in TaskIds : /\ cfg[u].send_to_all_groups = 0 /\ FoundNoTargets(u)
                        /\ tasks[u].failed_runs = 1 /\ tasks[u].status = "active"


\* ------------------------------------------------------------------- C20
\* execute_forwarding_task forwards one message per execution, one target
\* at a time in the order of the query, and a failed forward does not end
\* the loop.
ForwardsInStoreOrder ==
  \A t \in TaskIds :
    /\ co[t].pc = "w_forward" =>
         /\ co[t].i \in 1..Len(co[t].targets)
         /\ co[t].attempted = SubSeq(co[t].targets, 1, co[t].i - 1)
    /\ (co[t].pc \in {"w_disconnect", "stats", "catch", "done"} /\ co[t].i > 0) =>
         co[t].attempted = co[t].targets
    /\ co[t].i = 0 => co[t].attempted = <<>>
    /\ co[t].targets # <<>> => co[t].targets = TargetGroupsOf(t)


\* The targets to which execute_task of src/frw.py has forwarded the
\* primary message, in the order of the forwards.
RECURSIVE PrimaryTargets(_)
PrimaryTargets(a) ==
  IF a = <<>> THEN <<>>
  ELSE IF Head(a)[2] = "primary" THEN <<Head(a)[1]>> \o PrimaryTargets(Tail(a))
  ELSE PrimaryTargets(Tail(a))

\* C20: within one execution the forwards are issued one at a time in the
\* order the store returned the targets, and a failed forward to one target
\* (a rate limit included) does not stop the forwards to the remaining
\* targets: once the message is resolved, every target is attempted exactly
\* once with it.
C20_EveryTargetOnceInOrder ==
  /\ ForwardsInStoreOrder
  /\ legacy.pc = "forward" =>
       PrimaryTargets(legacy.attempted) = SubSeq(legacy.target_groups, 1, legacy.i - 1)
  /\ (legacy.pc = "done" /\ legacy.i > 0) =>
       PrimaryTargets(legacy.attempted) = legacy.target_groups


\* ------------------------------------------------------------------- C21
\* The pcs of an execution between the acquisition of the session and the
\* return of the disconnect.
HoldsSessionPcs ==
  {"lock", "lock_set", "w_lock", "w_start", "w_fetch", "w_forward", "w_disconnect"}

DisconnectClosed == \A t \in TaskIds : co[t].pc # "complete"

\* C21: every execution that obtained a session ends with one disconnect
\* request on it, whether the forwarding succeeded, failed, found no
\* target or raised; an error of the disconnect is swallowed: the
\* execution goes on to its statistics with the outcome it had.
C21_AlwaysDisconnects ==
  /\ [](\A t \in TaskIds :
          /\ co[t].pc \in HoldsSessionPcs => (co[t].client # 0 /\ co[t].disconnects = 0)
          /\ (co[t].client # 0 /\ co[t].pc \in {"stats", "catch", "done"}) =>
               co[t].disconnects = 1
          /\ co[t].client = 0 => co[t].disconnects = 0)
  /\ [][\A t \in TaskIds :
          (co[t].pc = "w_disconnect" /\ co'[t].pc # "w_disconnect") =>
            /\ co'[t].pc = "stats" /\ co'[t].disconnects = 1
            /\ co'[t].success = co[t].success /\ co'[t].raised = co[t].raised
            /\ co'[t].forwarded = co[t].forwarded]_vars
  /\ [](\A t \in TaskIds :
          (co[t].pc = "done" /\ co[t].client # 0
             /\ co[t].raised \cap {"store", "log", "handler"} = {}) =>
            (co[t].result = "true" <=> co[t].forwarded > 0))

\* A disconnect that raised after a successful forwarding, next to an
\* execution that raised, or found no target, and was disconnected.
C21_Witness ==
  \E t, u \in TaskIds :
    /\ co[t].pc = "done" /\ co[t].swallowed /\ co[t].result = "true"
    /\ tasks[t].successful_runs = 1
    /\ co[u].pc = "done" /\ co[u].disconnects = 1
    /\ (co[u].raised # {} \/ TargetGroupsOf(u) = <<>>)


\* ------------------------------------------------------------------- C22
\* A step of the scheduler thread: no bulk operation of the administrator
\* was spent.
SchedulerStep == budget'.ops = budget.ops

\* C22: the scheduler changes a status only from active to completed; a
\* task that an operator paused, also while the scheduler is checking or
\* executing it, is never moved to completed or to active by the scheduler.
C22_SchedulerOnlyCompletesActive ==
  [][\A t \in TaskIds :
       (SchedulerStep /\ tasks'[t].status # tasks[t].status) =>
         (tasks[t].status = "active" /\ tasks'[t].status = "completed")]_vars

\* The scheduler never writes the status active.
C22_SchedulerNeverActivates ==
  [][\A t \in TaskIds :
       (SchedulerStep /\ tasks'[t].status # tasks[t].status) =>
         tasks'[t].status = "completed"]_vars


\* ------------------------------------------------------------------- C23
\* C23: a task is executed once per due window: two executions of a task
\* with repetition interval I that record a run have last_run values at
\* least I minutes apart, and a task is executed at most once per poll
\* cycle.
C23_OncePerDueWindow ==
  \A t \in TaskIds :
    LET stamps == attempts[t].stamps
    IN /\ attempts[t].runs <= Polls /\ Len(stamps) <= attempts[t].runs
       /\ \A j \in 1..(Len(stamps) - 1) :
            /\ stamps[j + 1] - stamps[j] >= CHECK_TASKS_INTERVAL
            /\ Truthy(cfg[t].repetition_interval) =>
                 stamps[j + 1] - stamps[j] >=
                   cfg[t].repetition_interval * SECONDS_PER_MINUTE
       /\ (stamps # <<>> /\ tasks[t].status # "absent") =>
            tasks[t].last_run = stamps[Len(stamps)]

\* Task 1 (every 2 minutes) ran at the first and the third poll and was
\* skipped at the second and the fourth; task 2 (every minute) ran at each.
C23_Witness ==
  /\ now = T0 + 3 * CHECK_TASKS_INTERVAL /\ sched.pc = "sleep"
  /\ attempts[1].stamps = <<T0, T0 + 2 * CHECK_TASKS_INTERVAL>>
  /\ Len(attempts[2].stamps) = 4


\* ------------------------------------------------------------------- C24
\* The tasks on other accounts than the one of task 1.
OtherTasks == {u \in 1..StuckTasks : cfg[u].userbot_phone # cfg[1].userbot_phone}

\* C24: a network call of one execution that does not return does not
\* stall the fleet: the other due tasks are executed in the current cycle,
\* and the scheduler starts a later poll cycle in which they are executed
\* again.
C24_StuckAccountDoesNotStall ==
  /\ <>(\A u \in OtherTasks : attempts[u].stats >= 1)
  /\ <>(now > T0 /\ \A u \in OtherTasks : attempts[u].stats >= 2)

\* The first half of C24 alone: the tasks of the other accounts finish
\* their execution of the current cycle.
C24_OthersRunInCurrentCycle == <>(\A u \in OtherTasks : attempts[u].stats >= 1)


\* ------------------------------------------------------------------- C25
\* The finished execution of t committed its statistics update and its log
\* write then failed.
LogFailedAfterCommit(t) ==
  /\ co[t].pc = "done" /\ co[t].disconnects = 1 /\ "log" \in co[t].raised

\* C25: a failure to append the log entry does not roll back the primary
\* mutation: after an execution whose counter update committed and whose
\* log write then failed, total_runs, successful_runs, failed_runs and
\* last_run keep exactly the values written by that update.
C25_LogFailureKeepsCounters ==
  \A t \in TaskIds :
    LogFailedAfterCommit(t) =>
      tasks[t] = StatsRow(co[t].before, co[t].success, co[t].current_time)

\* What does hold: the update is not undone, failed_runs is not smaller.
C25_UpdateNotUndone ==
  \A t \in TaskIds :
    LogFailedAfterCommit(t) =>
      LET row == StatsRow(co[t].before, co[t].success, co[t].current_time)
      IN /\ tasks[t].total_runs = row.total_runs
         /\ tasks[t].successful_runs = row.successful_runs
         /\ tasks[t].last_run = row.last_run
         /\ tasks[t].failed_runs \in {row.failed_runs, row.failed_runs + 1}


\* ------------------------------------------------------------------- C26
\* clients.user_id of the subscriber whose invitation_code is client_id, as
\* the string the handlers store; it is never the invitation code itself.
user_id(client_id) == IF client_id = "c1" THEN "u1" ELSE "u2"

\* The groups a subscriber submits and the folders they are put into.
FolderLinks == {3}
TargetFolders == {2}

\* process_group_links_for_folder for one link of the submission of the
\* subscriber c: INSERT OR IGNORE INTO target_groups with added_by =
\* str(user_id) and the folder of the conversation, then the commit.
process_group_links_for_folder(c) ==
  /\ budget.ops > 0
  /\ \E g \in FolderLinks, f \in TargetFolders :
       target_groups' =
         IF KeyTaken(target_groups, g, user_id(c))
           THEN target_groups
           ELSE target_groups \cup {[group_id |-> g, added_by |-> user_id(c), folder_id |-> f]}
  /\ budget' = [budget EXCEPT !.ops = @ - 1]
  /\ UNCHANGED <<tasks, cfg, userbots_table, clients, logs, admin_actions, userbots,
                 created, lock, semaphore, sched, co, running, now, attempts, join,
                 due, aj, term, legacy, invitation, removal, resolution, locking>>

\* handle_create_task_final writes client_id = the invitation code of the
\* creator: one target-all task of subscriber c1 and one of subscriber c2.
TargetsCfg(t) ==
  OwnedBy(Cfg(IF t = 1 THEN "p1" ELSE "p3", "internal", NoLink, NULL, NULL, NULL, 1, 1, TRUE),
          IF t = 1 THEN "c1" ELSE "c2")

InitTargets ==
  /\ InitEngine
  /\ invitation = NoInvitation
  /\ due = NoDue
  /\ tasks = [t \in TaskIds |-> IF t <= TargetsTasks THEN NewRow("active") ELSE NoRow]
  /\ cfg = [t \in TaskIds |-> TargetsCfg(t)]
  /\ budget = [cycles |-> TargetsCycles, faults |-> 0, spent |-> 0, session |-> 0,
               disconnect |-> 0, ops |-> TargetsOps]

NextTargets ==
  \/ Scheduler
  \/ \E c \in {"c1", "c2"} : process_group_links_for_folder(c)
  \/ \E t \in TaskIds :
       \/ run_task_with_semaphore(t)
       \/ execute_enhanced_task_select(t)
       \/ get_userbot_client_select(t)
       \/ get_userbot_client_cache(t)
       \/ execute_forwarding_task_lock(t)
       \/ execute_forwarding_task_locked(t)
       \/ execute_forwarding_task_started(t)
       \/ execute_forwarding_task_fetched(t)
       \/ execute_forwarding_task_forwarded(t)
       \/ execute_forwarding_task_disconnected(t)
       \/ execute_enhanced_task_stats(t)

SpecTargets == InitTargets /\ [][NextTargets]_vars

\* The rows of target_groups that the add-groups-to-folder operation wrote
\* for the subscriber of task t, and all the rows of that subscriber.
RegisteredBy(t) == {r \in target_groups : r.added_by = user_id(cfg[t].client_id)}
OwnedGroups(t) ==
  {r \in target_groups : r.added_by \in {cfg[t].client_id, user_id(cfg[t].client_id)}}

\* The step in which the body of a target-all task t resolves its targets:
\* client.start() returned and the query did not raise.
ResolvesAll(t) ==
  /\ cfg[t].send_to_all_groups # 0
  /\ co[t].pc = "w_start" /\ co'[t].pc # "w_start"
  /\ co'[t].raised = co[t].raised

\* C26: the resolved target set of a target-all task is exactly the set of
\* groups owned by the subscriber of the task, and it is not empty when
\* that subscriber has registered a group through the add-groups-to-folder
\* operation.
C26_TargetAllResolvesOwned ==
  [][\A t \in TaskIds :
       ResolvesAll(t) =>
         /\ co'[t].targets = GroupSeq({r.group_id : r \in OwnedGroups(t)})
         /\ RegisteredBy(t) # {} => co'[t].targets # <<>>]_vars

\* What does hold: the resolved set is the set of rows whose added_by is
\* the invitation code in the client_id column of the task.
C26_TargetAllByInvitationCode ==
  [][\A t \in TaskIds :
       ResolvesAll(t) =>
         co'[t].targets =
           GroupSeq({r.group_id : r \in {x \in target_groups : x.added_by = cfg[t].client_id}})]_vars


\* ------------------------------------------------------------------- C27
\* The column subscription_end of the keys: c1 ends between the second and
\* the third poll, c2 has ended at T0.
SubscriptionEnd(c) == IF c = "c1" THEN T0 + CHECK_TASKS_INTERVAL + 30 ELSE T0

\* A variant of the WHERE clause that does not look at user_id;
\* C27_KeyBindsOnce must tell it from Selectable.
Selectable_AnyUser(program, bound, u) == TRUE

\* The WHERE clause of the SELECT on the column user_id:
\* `user_id IS NULL OR user_id = ?` in src/enhanced_frw.py, `user_id IS NULL`
\* in src/frw.py.
Selectable(program, bound, u) ==
  \/ bound = NoUser
  \/ program = "enhanced" /\ bound = u

UnchangedByInvitation ==
  UNCHANGED <<tasks, cfg, target_groups, userbots_table, clients, logs, admin_actions,
              userbots, created, lock, semaphore, sched, co, running, now, join,
              attempts, due, aj, term, legacy, removal, resolution, locking>>

Refused(inv, u, code, why) ==
  [inv EXCEPT !.pc = "idle", !.refused = @ \cup {<<u, code, why>>}]

\* process_invitation_code up to the end of its first `with db_lock`: the
\* SELECT by invitation_code and user_id; without a row the reply is
\* 'invalid_code'.  The dispatcher thread of the updater runs one handler
\* at a time.
process_invitation_code(u, code) ==
  /\ invitation.pc = "idle" /\ budget.ops > 0
  /\ budget' = [budget EXCEPT !.ops = @ - 1]
  /\ IF code \in Keys /\ Selectable(invitation.program, invitation.user_id[code], u)
       THEN invitation' = [invitation EXCEPT !.pc = "selected", !.user = u, !.code = code,
                                             !.subscription_end = SubscriptionEnd(code)]
       ELSE invitation' = Refused(invitation, u, code, "no row")
  /\ UnchangedByInvitation

\* The rest of the handler: the clock is read, an expired key is refused,
\* and the UPDATE of user_id WHERE invitation_code = ? is committed
\* (src/enhanced_frw.py sets status = 'active' too).
process_invitation_code_activate ==
  /\ invitation.pc = "selected"
  /\ LET current_time == now
         code == invitation.code
     IN IF invitation.subscription_end <= current_time
          THEN invitation' = Refused(invitation, invitation.user, code, "expired")
          ELSE invitation' =
                 [invitation EXCEPT !.pc = "idle",
                                    !.user_id[code] = invitation.user,
                                    !.status[code] = IF invitation.program = "enhanced"
                                                       THEN "active" ELSE @]
  /\ UNCHANGED budget
  /\ UnchangedByInvitation

\* Either program, no task in the store: the scheduler thread polls and
\* sleeps while users submit codes.
InitInvite ==
  /\ InitEngine
  /\ invitation \in {[NoInvitation EXCEPT !.program = p] : p \in {"enhanced", "legacy"}}
  /\ due = NoDue
  /\ tasks = [t \in TaskIds |-> NoRow]
  /\ cfg = [t \in TaskIds |-> PlainCfg]
  /\ budget = [cycles |-> InviteCycles, faults |-> 0, spent |-> 0, session |-> 0,
               disconnect |-> 0, ops |-> InviteOps]

NextInvite ==
  \/ check_enhanced_tasks_query
  \/ check_enhanced_tasks_sleep
  \/ \E u \in {"u1", "u2"}, code \in Keys \cup {"bad"} : process_invitation_code(u, code)
  \/ process_invitation_code_activate

SpecInvite == InitInvite /\ [][NextInvite]_vars

UnchangedByRemoval ==
  UNCHANGED <<tasks, cfg, target_groups, clients, logs, admin_actions, semaphore,
              sched, co, running, now, join, attempts, due, aj, term, legacy,
              invitation, resolution, locking>>

\* handle_callback, data = remove_ub_<phone>, to the end of the second
\* `with db_lock`: DELETE FROM userbots WHERE phone_number = ? and the
\* commit.
handle_callback_remove_ub(p) ==
  /\ removal.pc = "idle" /\ budget.ops > 0
  /\ userbots_table' = userbots_table \ {p}
  /\ removal' = [removal EXCEPT !.pc = "deleted", !.phone = p]
  /\ budget' = [budget EXCEPT !.ops = @ - 1]
  /\ UNCHANGED <<userbots, created, lock>>
  /\ UnchangedByRemoval

\* The section under userbots_lock: a cached tuple is popped, its
\* disconnect is submitted to its loop and the loop is told to stop; the
\* handler then logs, notifies and returns.
handle_callback_remove_ub_pop ==
  /\ removal.pc = "deleted"
  /\ LET p == removal.phone
         popped == IF userbots[p] # 0 THEN {<<p, userbots[p]>>} ELSE {}
     IN /\ userbots' = [userbots EXCEPT ![p] = 0]
        /\ removal' = [removal EXCEPT !.pc = "idle", !.phone = "none",
                                      !.removed = @ \cup {p},
                                      !.popped = @ \cup popped,
                                      !.asked = @ \cup popped,
                                      !.stopped = @ \cup popped]
  /\ UNCHANGED <<userbots_table, created, lock, budget>>
  /\ UnchangedByRemoval

\* get_userbot_client(phone) of src/frw.py called by check_tasks, to the end
\* of its `with db_lock`: the SELECT of the record.
get_userbot_client_record(p) ==
  /\ removal.acquire.pc = "idle" /\ budget.ops > 0
  /\ removal' = [removal EXCEPT !.acquire = [pc |-> "registry", phone |-> p,
                                             result |-> p \in userbots_table]]
  /\ budget' = [budget EXCEPT !.ops = @ - 1]
  /\ UNCHANGED <<userbots_table, userbots, created, lock>>
  /\ UnchangedByRemoval

\* `if result:` and the section under userbots_lock: a phone that is not
\* cached gets a new loop, thread and client, and the tuple is cached; the
\* cached tuple is returned.  Without a record, or when the construction
\* fails, the caller gets (None, None, None, None).
get_userbot_client_registry ==
  /\ removal.acquire.pc = "registry"
  /\ LET p == removal.acquire.phone
         Returns(x) == removal' = [removal EXCEPT !.acquire = NoRemoval.acquire,
                                                 !.returned = @ \cup {<<p, x>>}]
     IN \/ /\ ~removal.acquire.result
           /\ Returns(0)
           /\ UNCHANGED <<userbots, created, lock, budget>>
        \/ /\ removal.acquire.result /\ userbots[p] # 0
           /\ Returns(userbots[p])
           /\ UNCHANGED <<userbots, created, lock, budget>>
        \/ /\ removal.acquire.result /\ userbots[p] = 0
           /\ RegistryCreated(p)
           /\ Returns(created[p].clients + 1)
           /\ UNCHANGED budget
        \/ /\ removal.acquire.result /\ userbots[p] = 0 /\ budget.session > 0
           /\ RegistryCreateFailed(p)
           /\ Returns(0)
           /\ budget' = [budget EXCEPT !.session = @ - 1]
  /\ UNCHANGED userbots_table
  /\ UnchangedByRemoval

\* The accounts p1 and p3 have a record, nothing is cached; the dispatcher
\* thread deletes accounts while the thread of check_tasks acquires them.
InitRemove ==
  /\ InitEngine
  /\ invitation = NoInvitation
  /\ due = NoDue
  /\ tasks = [t \in TaskIds |-> NoRow]
  /\ cfg = [t \in TaskIds |-> PlainCfg]
  /\ budget = [cycles |-> 0, faults |-> 0, spent |-> 0, session |-> RemoveSessionFaults,
               disconnect |-> 0, ops |-> RemoveOps]

NextRemove ==
  \/ \E p \in Phones : handle_callback_remove_ub(p)
  \/ handle_callback_remove_ub_pop
  \/ \E p \in Phones : get_userbot_client_record(p)
  \/ get_userbot_client_registry

SpecRemove == InitRemove /\ [][NextRemove]_vars

\* C28: after the deletion of an account has completed, the registry holds
\* no cached session for its key, and the session the deletion removed
\* has been asked to disconnect and its loop to stop, also when
\* get_userbot_client runs for the same key at the same time.
C28_DeletedAccountNotCached ==
  /\ \A p \in removal.removed : userbots[p] = 0
  /\ removal.popped \subseteq removal.asked \cap removal.stopped

\* What does hold: the deletion empties the entry of the key, and every
\* tuple it popped was asked to disconnect and its loop to stop; a session
\* cached for a deleted key is one constructed after the pop.
C28_PoppedAskedToStop ==
  /\ removal.popped \subseteq removal.asked \cap removal.stopped
  /\ \A p \in removal.removed :
       userbots[p] # 0 => <<p, userbots[p]>> \notin removal.popped


\* ------------------------------------------------------------------- C29
\* A failed attempt that is not the last allowed one is in its backoff.
InBackoff == aj.pc = "a_sleep"

\* C29: a join makes at most 5 attempts for one reference: no attempt has
\* a number above 4, an attempt that ended in a rate limit or in an
\* unexpected failure is followed by its backoff and then by the next
\* attempt, and the call ends by returning (false, detail), never by an
\* exception.
C29_FiveAttemptsWithBackoff ==
  [][/\ aj'.attempt < MAX_RETRIES
     /\ InBackoff => aj'.pc = "a_entity" /\ aj'.attempt = aj.attempt + 1
     /\ \A k \in 1..Len(aj'.ret) :
          aj'.ret[k].attempts <= MAX_RETRIES /\ ~aj'.ret[k].raised]_vars

\* What does hold: at most 5 attempts, in fact at most 3, because the
\* backoffs do not fit into the 30 seconds of the caller; a backoff, which
\* only a rate limit starts, is followed by the next attempt or by the
\* timeout; and a call that does not raise gives the caller a pair.
C29_AttemptsWithinTimeout ==
  [][/\ aj'.attempt < 3
     /\ InBackoff =>
          \/ aj'.pc = "a_entity" /\ aj'.attempt = aj.attempt + 1
          \/ /\ aj'.pc = "idle" /\ Len(aj'.ret) = Len(aj.ret) + 1
             /\ ~aj'.ret[Len(aj'.ret)].joined /\ aj'.ret[Len(aj'.ret)].detail = "timeout"
     /\ InBackoff => aj.advertised > 0
     /\ \A k \in 1..Len(aj'.ret) :
          /\ aj'.ret[k].attempts <= 3
          /\ aj'.ret[k].raised => aj'.ret[k].detail \in Permanent \cup Transient]_vars


\* ------------------------------------------------------------------- C30
\* C30: an attempt number k in 0..3 that is rate-limited with an advertised
\* wait of w seconds is followed by a wait of w + 5 * 2^k seconds: the
\* advertised wait is honoured in full and added to the backoff.
C30_AdvertisedWaitHonoured ==
  (InBackoff /\ aj.advertised > 0) =>
    aj.wait_time = aj.advertised + BASE_DELAY * Pow2(aj.attempt)

\* What does hold: the advertised wait counts for at most 60 seconds.
C30_AdvertisedWaitCapped ==
  (InBackoff /\ aj.advertised > 0) =>
    aj.wait_time = Min(aj.advertised, FLOOD_CAP) + BASE_DELAY * Pow2(aj.attempt)


\* ------------------------------------------------------------------- C31
\* The calls that ended because an attempt met a permanent failure.
PermanentEnds == {k \in 1..Len(aj.ret) : aj.ret[k].detail \in Permanent}

\* C31: an attempt that meets a permanent failure (private group, expired
\* invite, access forbidden) ends the call at once with (false, detail):
\* no further attempt, no backoff, and no exception for the caller.
C31_PermanentFailsAtOnce ==
  \A k \in PermanentEnds : ~aj.ret[k].joined /\ ~aj.ret[k].raised

\* What does hold: the permanent failure ends the call at once, without a
\* further attempt or a backoff, but with the NameError of the except
\* clause instead of a pair.
C31_PermanentRaisesAtOnce ==
  [][/\ \A k \in PermanentEnds : ~aj.ret[k].joined /\ aj.ret[k].raised
     /\ \A e \in Permanent :
          (aj.pc # "idle" /\ aj' = Raised([aj EXCEPT !.rejected = TRUE], e)) =>
            aj'.ret[Len(aj'.ret)].attempts = aj.attempt + 1 /\ aj'.pc = "idle"]_vars


\* ------------------------------------------------------------------- C32
\* The step of a poll cycle that queries the store and creates the
\* coroutines.
Queried == sched.pc = "query" /\ sched'.pc = "gather"

\* C32: a poll cycle starts exactly the tasks that are active when it
\* queries the store, each once, and they reach the limiter in ascending
\* order of the last_run they had at the query, a task that never ran
\* counting as the earliest; a queued task gets its slot in that order too.
C32_ActiveStartedInOrder ==
  [][/\ Queried =>
          LET order == sched'.toStart
          IN /\ {order[k] : k \in 1..Len(order)} = {t \in TaskIds : tasks[t].status = "active"}
             /\ Len(order) = Cardinality({t \in TaskIds : tasks[t].status = "active"})
             /\ \A i, j \in 1..Len(order) :
                  i < j => Coalesce(tasks[order[i]].last_run) <= Coalesce(tasks[order[j]].last_run)
             /\ \A t \in TaskIds :
                  co'[t].pc = "new" <=> tasks[t].status = "active"
     /\ \A t \in TaskIds :
          (co[t].pc = "new" /\ co'[t].pc # "new") =>
            /\ sched.toStart # <<>> /\ t = Head(sched.toStart)
            /\ sched'.toStart = Tail(sched.toStart)
            /\ co'[t].pc \in {"select", "w_sem"}
     /\ \A t \in TaskIds :
          (co[t].pc = "w_sem" /\ co'[t].pc # "w_sem") => t = Head(semaphore.waiters)
     /\ \A t \in TaskIds :
          (co[t].pc = "idle" /\ ~Queried) => co'[t].pc = "idle"]_vars

\* The second poll started task 2, which never recorded a run, before
\* task 1, which had.
C32_Witness ==
  /\ sched.pc = "gather" /\ now > T0
  /\ sched.active_tasks = <<2, 1>>
  /\ attempts[2].stamps = <<>> /\ attempts[1].stamps # <<>>
  /\ co[2].pc # "new" /\ co[1].pc = "new"


\* ------------------------------------------------------------------- C33
\* Task 1 repeats every 2 minutes, task 2 starts at the second poll, task 3
\* runs at every poll; all on the account p1, tasks 2 and 3 on the empty
\* folder.
SkipCfg(t) ==
  CASE t = 1 -> Cfg("p1", "internal", NoLink, NULL, NULL, 2, 0, 1, TRUE)
    [] t = 2 -> Cfg("p1", "internal", NoLink, T0 + CHECK_TASKS_INTERVAL, NULL, NULL, 0, 2, TRUE)
    [] OTHER -> Cfg("p1", "internal", NoLink, NULL, NULL, NULL, 0, 2, TRUE)

InitSkip ==
  /\ InitEngine
  /\ invitation = NoInvitation
  /\ due = NoDue
  /\ tasks = [t \in TaskIds |-> IF t <= SkipTasks THEN NewRow("active") ELSE NoRow]
  /\ cfg = [t \in TaskIds |-> SkipCfg(t)]
  /\ budget = [cycles |-> SkipCycles, faults |-> 0, spent |-> 0, session |-> 0,
               disconnect |-> 0, ops |-> 0]

SpecSkip == InitSkip /\ [][NextWindow]_vars

\* The row that the execution of t has just read is not due: its start
\* time is ahead, or it has not ended and its last run is less than the
\* interval back.
NotDue(t) ==
  \/ Truthy(cfg[t].start_time) /\ now < cfg[t].start_time
  \/ /\ ~(Truthy(cfg[t].end_time) /\ now > cfg[t].end_time)
     /\ Truthy(tasks[t].last_run) /\ Truthy(cfg[t].repetition_interval)
     /\ now < tasks[t].last_run + cfg[t].repetition_interval * SECONDS_PER_MINUTE

\* The step of the execution of t in which the SELECT returns the active
\* row and the row unpacks.
ReadsRow(t) ==
  /\ co[t].pc = "select" /\ co'[t].pc # "select"
  /\ tasks[t].status = "active" /\ cfg[t].unpack_ok
  /\ co'[t].raised = {}

\* C33: an execution whose due-check finds the task not due changes
\* nothing: the row of the task, the counters of the subscriber, the log
\* and the registry are as before, no session was acquired and no forward
\* attempted; the execution is over.
C33_NotDueChangesNothing ==
  [][\A t \in TaskIds :
       (ReadsRow(t) /\ NotDue(t)) =>
         /\ UNCHANGED <<tasks, clients, logs, userbots, created, lock, attempts>>
         /\ co'[t].pc = "done" /\ co'[t].result = "false"
         /\ co'[t].client = 0 /\ co'[t].attempted = <<>> /\ co'[t].forwarded = 0]_vars

\* At the second poll task 1 was found not due for its next repetition
\* and left as it was; task 2, found not due to start at the first poll,
\* has its only run at the second.
C33_Witness ==
  /\ now = T0 + CHECK_TASKS_INTERVAL
  /\ co[1].pc = "done" /\ co[1].result = "false" /\ co[1].raised = {}
  /\ Truthy(tasks[1].last_run) /\ Truthy(cfg[1].repetition_interval)
  /\ co[1].current_time < tasks[1].last_run + cfg[1].repetition_interval * SECONDS_PER_MINUTE
  /\ tasks[1] = co[1].before /\ co[1].client = 0
  /\ cfg[2].start_time = now /\ attempts[2].runs = 1 /\ co[2].pc \notin {"idle", "new", "select"}


\* ------------------------------------------------------------------- C34
\* A reference is the sequence link.split('/') of its parts.  The parts
\* drawn: the scheme, the host, the marker c, an alias, a decimal number,
\* "^2" standing for the one-character string U+00B2 (superscript two), and
\* the empty part.
TailParts == {"c", "chan", "7", "^2", ""}
Schemes == {"https:", "http:"}

RECURSIVE Tails(_)
Tails(n) ==
  IF n = 0 THEN {<<>>}
  ELSE Tails(n - 1) \cup {Append(x, a) : x \in {y \in Tails(n - 1) : Len(y) = n - 1}, a \in TailParts}

Links == {<<h, "", "t.me">> \o x : h \in Schemes, x \in Tails(LinkTail)}

\* str.isdigit: every character is a digit of the Unicode categories Nd or
\* No, and there is at least one; U+00B2 is such a digit.
isdigit(part) == part \in {"7", "^2"}

\* int(part) returns for decimal digits only: int of U+00B2 raises
\* ValueError.
IntRaises(part) == part = "^2"
int(part) == IF part = "7" THEN 7 ELSE 0

\* link.startswith("https://t.me/c/") and link.startswith("https://t.me/")
\* in terms of the parts, none of which holds a slash.
StartsWithInternal(parts) ==
  Len(parts) >= 5 /\ SubSeq(parts, 1, 4) = <<"https:", "", "t.me", "c">>
StartsWithPublic(parts) ==
  Len(parts) >= 4 /\ SubSeq(parts, 1, 3) = <<"https:", "", "t.me">>

\* The tests of the if and of the elif (lines 633 and 637); parts[4] and
\* parts[5] of the source are parts[5] and parts[6] here.
InternalTest(parts) ==
  StartsWithInternal(parts) /\ Len(parts) = 6 /\ isdigit(parts[5]) /\ isdigit(parts[6])
PublicTest(parts) ==
  StartsWithPublic(parts) /\ Len(parts) = 5 /\ isdigit(parts[5])

\* PeerChannel(-1000000000000 - int(parts[4])): the handle is kept as the
\* channel number it is computed from.
PeerChannel(n) == <<"PeerChannel", n>>

\* The call up to its first await, its return or its raise.
get_message_from_link(link, lookup) ==
  /\ resolution.pc = "idle"
  /\ LET r == [resolution EXCEPT !.link = link, !.lookup = lookup]
     IN resolution' =
          IF InternalTest(link)
            THEN IF IntRaises(link[5]) \/ IntRaises(link[6])
                   THEN [r EXCEPT !.pc = "done", !.outcome = "raised",
                                  !.detail = "invalid literal for int()", !.cause = "int"]
                   ELSE [r EXCEPT !.pc = "done", !.outcome = "returned",
                                  !.chat = PeerChannel(int(link[5])),
                                  !.message_id = int(link[6])]
          ELSE IF PublicTest(link)
            THEN [r EXCEPT !.pc = "get_entity"]
          ELSE [r EXCEPT !.pc = "done", !.outcome = "raised",
                         !.detail = "Invalid message link"]
  /\ UNCHANGED <<tasks, cfg, target_groups, userbots_table, clients, logs,
                 admin_actions, userbots, created, lock, semaphore, sched, co,
                 running, now, budget, join, attempts, due, aj, term, legacy,
                 invitation, removal, locking>>

\* client.get_entity(parts[3]) returns or raises; then int(parts[4]), still
\* inside the try.
get_message_from_link_get_entity ==
  /\ resolution.pc = "get_entity"
  /\ LET r == [resolution EXCEPT !.pc = "done", !.calls = @ + 1]
     IN resolution' =
          IF r.lookup = "raises"
            THEN [r EXCEPT !.outcome = "raised", !.detail = "Failed to get entity",
                           !.cause = "get_entity"]
          ELSE IF IntRaises(r.link[5])
            THEN [r EXCEPT !.outcome = "raised", !.detail = "Failed to get entity",
                           !.cause = "int"]
          ELSE [r EXCEPT !.outcome = "returned", !.chat = <<"entity", r.link[4]>>,
                         !.message_id = int(r.link[5])]
  /\ UNCHANGED <<tasks, cfg, target_groups, userbots_table, clients, logs,
                 admin_actions, userbots, created, lock, semaphore, sched, co,
                 running, now, budget, join, attempts, due, aj, term, legacy,
                 invitation, removal, locking>>

InitResolve ==
  /\ InitEngine
  /\ invitation = NoInvitation
  /\ due = NoDue
  /\ tasks = [t \in TaskIds |-> NoRow]
  /\ cfg = [t \in TaskIds |-> PlainCfg]
  /\ budget = [cycles |-> 0, faults |-> 0, spent |-> 0, session |-> 0, disconnect |-> 0,
               ops |-> 0]

NextResolve ==
  \/ \E link \in Links, lookup \in {"returns", "raises"} : get_message_from_link(link, lookup)
  \/ get_message_from_link_get_entity

SpecResolve == InitResolve /\ [][NextResolve]_vars

\* The two recognised forms, by the tests of the source.
InternalForm == InternalTest(resolution.link)
PublicForm == ~InternalForm /\ PublicTest(resolution.link)
Resolved == resolution.pc = "done"

\* C34: every reference ends in exactly one of three outcomes: the
\* internal-channel form returns (chat handle, message id) without a network
\* call; the public-alias form makes one alias lookup and returns (chat
\* handle, message id), or fails as a resolution failure when the lookup
\* fails; every other string fails as an invalid reference without a network
\* call.
C34_ThreeOutcomes ==
  Resolved =>
    /\ InternalForm => resolution.outcome = "returned" /\ resolution.calls = 0
    /\ PublicForm =>
         /\ resolution.calls = 1
         /\ resolution.lookup = "returns" => resolution.outcome = "returned"
         /\ resolution.lookup = "raises" =>
              /\ resolution.outcome = "raised"
              /\ resolution.detail = "Failed to get entity"
              /\ resolution.cause = "get_entity"
    /\ (~InternalForm /\ ~PublicForm) =>
         /\ resolution.outcome = "raised"
         /\ resolution.detail = "Invalid message link"
         /\ resolution.calls = 0

\* What does hold: the three outcomes as stated for the references whose
\* numbers int() accepts; a number that passes isdigit and that int()
\* rejects fails the internal-channel form with the ValueError of int() and
\* no network call, and fails the public-alias form after the lookup, as a
\* failure to get the entity although the lookup returned.
Decimal == \A k \in 5..Len(resolution.link) : ~IntRaises(resolution.link[k])

C34_ThreeOutcomesForDecimals ==
  Resolved =>
    /\ Decimal => C34_ThreeOutcomes
    /\ (InternalForm /\ ~Decimal) =>
         resolution.outcome = "raised" /\ resolution.cause = "int" /\ resolution.calls = 0
    /\ (PublicForm /\ ~Decimal) =>
         /\ resolution.outcome = "raised" /\ resolution.calls = 1
         /\ resolution.detail = "Failed to get entity"
         /\ resolution.lookup = "returns" => resolution.cause = "int"
    /\ resolution.outcome = "returned" =>
         /\ resolution.message_id = int(resolution.link[Len(resolution.link)])
         /\ InternalForm => resolution.chat = PeerChannel(int(resolution.link[5]))
         /\ PublicForm => resolution.chat = <<"entity", resolution.link[4]>>


\* ------------------------------------------------------------------- C35
\* No execution of the task is in flight: none was created, or the last one
\* has returned or raised.
Returned(t) == co[t].pc \in {"idle", "done"}

\* C35: at most one execution of a task is in flight: a poll cycle creates
\* one execution for each task of its query and none for a task twice, only
\* the query creates executions, it finds no execution of an earlier cycle
\* in flight, and outside the gather no execution is in flight at all.
C35_OneExecutionInFlight ==
  [][/\ sched.pc # "gather" => \A t \in TaskIds : Returned(t)
     /\ Queried =>
          /\ \A t \in TaskIds : Returned(t)
          /\ \A i, j \in 1..Len(sched'.active_tasks) :
               sched'.active_tasks[i] = sched'.active_tasks[j] => i = j
          /\ \A t \in TaskIds :
               co'[t].pc = "new" <=> \E i \in 1..Len(sched'.active_tasks) : sched'.active_tasks[i] = t
     /\ \A t \in TaskIds : (co'[t].pc = "new" /\ co[t].pc # "new") => Queried]_vars

\* The second poll cycle, an execution of a task in flight whose execution
\* of the first cycle updated the statistics.
C35_Witness ==
  /\ sched.pc = "gather" /\ now > T0
  /\ \E t \in TaskIds :
       /\ co[t].pc \notin {"idle", "new", "done"}
       /\ attempts[t].stats >= 1 /\ Len(attempts[t].stamps) >= 1


\* ------------------------------------------------------------------- C36
\* The step of the execution of t in which the SELECT runs, without a store
\* error, on the row that a pause has left paused.
SelectsPaused(t) ==
  /\ co[t].pc = "select" /\ co'[t].pc # "select"
  /\ tasks[t].status = "paused" /\ co'[t].raised = {}

\* C36: an execution that reads its row after a pause of the task has
\* committed finds no active row and returns: it acquires no session,
\* attempts no forward and changes no counter, although the poll cycle
\* queried the task as active.
C36_PausedBeforeReadDoesNothing ==
  [][\A t \in TaskIds :
       SelectsPaused(t) =>
         /\ \E k \in 1..Len(sched.active_tasks) : sched.active_tasks[k] = t
         /\ UNCHANGED <<tasks, clients, logs, userbots, created, lock, attempts>>
         /\ co'[t].pc = "done" /\ co'[t].result = "false"
         /\ co'[t].client = 0 /\ co'[t].attempted = <<>> /\ co'[t].forwarded = 0]_vars

\* An execution of the current cycle has returned on the paused row it read.
C36_Witness ==
  /\ sched.pc = "gather"
  /\ \E t \in TaskIds :
       /\ \E k \in 1..Len(sched.active_tasks) : sched.active_tasks[k] = t
       /\ co[t].pc = "done" /\ co[t].result = "false" /\ co[t].raised = {}
       /\ co[t].before.status = "paused" /\ tasks[t] = co[t].before
       /\ co[t].client = 0 /\ attempts[t].runs = 0


\* ------------------------------------------------------------------- C37
\* The counters of a row are ordered.
Ordered(row) ==
  /\ row.successful_runs <= row.total_runs
  /\ row.total_runs <= row.successful_runs + row.failed_runs

\* C37: in every state successful_runs <= total_runs <= successful_runs +
\* failed_runs for every task, and no step of the scheduler decreases
\* total_runs, successful_runs, failed_runs or last_run of a task.
C37_CountersOrdered ==
  /\ [](\A t \in TaskIds : Ordered(tasks[t]))
  /\ [][\A t \in TaskIds :
          SchedulerStep =>
            /\ tasks'[t].total_runs >= tasks[t].total_runs
            /\ tasks'[t].successful_runs >= tasks[t].successful_runs
            /\ tasks'[t].failed_runs >= tasks[t].failed_runs
            /\ Coalesce(tasks'[t].last_run) >= Coalesce(tasks[t].last_run)]_vars

\* In the second poll cycle a task that was just run has a successful run
\* and more failures than failed runs.
C37_Witness ==
  /\ now > T0
  /\ \E t \in TaskIds :
       /\ tasks[t].successful_runs >= 1
       /\ tasks[t].failed_runs >= 1
       /\ tasks[t].total_runs < tasks[t].successful_runs + tasks[t].failed_runs
       /\ tasks[t].last_run = now


\* ------------------------------------------------------------------- C38
\* C38: no step of the scheduler and no bulk operation sets a status to
\* failed: a row is failed only if it was failed before the step, and a step
\* that counts a failure of a task leaves the status of the task as it was,
\* so a task that keeps failing stays in the polled set.
C38_NeverSetsFailed ==
  [][\A t \in TaskIds :
       /\ tasks'[t].status = "failed" => tasks[t].status = "failed"
       /\ tasks'[t].failed_runs > tasks[t].failed_runs =>
            tasks'[t].status = tasks[t].status]_vars

\* A task that failed in the first poll cycle is polled as active in the
\* second and fails again.
C38_Witness ==
  /\ sched.pc = "gather" /\ now > T0
  /\ \E t \in TaskIds :
       /\ \E k \in 1..Len(sched.active_tasks) : sched.active_tasks[k] = t
       /\ tasks[t].status = "active"
       /\ tasks[t].failed_runs >= 2 /\ tasks[t].successful_runs = 0


\* ------------------------------------------------------------------- C39
\* The execution of t holds neither a mutex nor a slot of the limiter.
Released(t) ==
  /\ \A p \in Phones : Act(t) \notin lock[p].holders
  /\ t \notin InFlight

\* Every execution that was started ends, and an execution that has ended,
\* on whichever path, has released the mutex of its account and its slot;
\* when the gather has returned every mutex is free and every slot is back.
ExecutionsEndReleased ==
  /\ [](\A t \in TaskIds : co[t].pc = "done" => Released(t))
  /\ [](sched.pc \in {"sleep", "dead"} =>
          /\ \A p \in Phones : ~lock[p].locked /\ lock[p].holders = {} /\ lock[p].waiters = <<>>
          /\ sched.active_tasks # <<>> =>
               semaphore.value = SEMAPHORE_LIMIT /\ semaphore.waiters = <<>>)
  /\ [](semaphore.value = SEMAPHORE_LIMIT - Cardinality(InFlight))
  /\ \A t \in TaskIds : (co[t].pc \notin {"idle", "done"}) ~> (co[t].pc = "done")

\* C39: while every network call returns or raises, every execution ends
\* and has then released the mutex of its account and its slot of the
\* limiter, on every path, so every poll cycle completes (the gather returns
\* and the loop sleeps) and the next cycle begins.
C39_EveryCycleCompletes ==
  /\ ExecutionsEndReleased
  /\ (sched.pc = "gather") ~> (sched.pc = "sleep")
  /\ (sched.pc = "query") ~> (sched.pc = "sleep")
  /\ (sched.pc = "sleep" /\ budget.cycles > 0) ~> (sched.pc = "query")

\* What does hold: the executions end released and the gather returns; the
\* cycle then reaches its sleep, and the next cycle begins, unless an error
\* of the store in the loop's own log_event has ended the loop.
C39_EveryGatherReturns ==
  /\ ExecutionsEndReleased
  /\ (sched.pc = "gather") ~> (sched.pc \in {"sleep", "dead"})
  /\ (sched.pc = "query") ~> (sched.pc \in {"sleep", "dead"})
  /\ (sched.pc = "sleep" /\ budget.cycles > 0) ~> (sched.pc = "query")
  /\ [](sched.pc = "dead" => budget.spent > 0)


\* ------------------------------------------------------------------- C40
\* What a piece of code does with the two locks, in the order of its
\* statements: entering and leaving a `with` block.
Enter(lk) == <<"enter", lk>>
Exit(lk) == <<"exit", lk>>

\* A variant of get_userbot_client_locks whose log_event stands inside the
\* block of userbots_lock; C40_RegistryNeverOutside must tell it from
\* get_userbot_client_locks.
get_userbot_client_locks_LogsInside(found, raises) ==
  <<Enter("db_lock"), Exit("db_lock")>>
    \o (IF ~found THEN <<>>
        ELSE IF raises
          THEN <<Enter("userbots_lock"), Enter("db_lock"), Exit("db_lock"), Exit("userbots_lock")>>
        ELSE <<Enter("userbots_lock"), Exit("userbots_lock")>>)

\* get_userbot_client: the SELECT under db_lock; with a record, the block of
\* userbots_lock; an exception raised inside it (future.result) leaves the
\* block and reaches the handler, whose log_event takes db_lock.
get_userbot_client_locks(found, raises) ==
  <<Enter("db_lock"), Exit("db_lock")>>
    \o (IF ~found THEN <<>>
        ELSE IF raises
          THEN <<Enter("userbots_lock"), Exit("userbots_lock"), Enter("db_lock"), Exit("db_lock")>>
        ELSE <<Enter("userbots_lock"), Exit("userbots_lock")>>)

\* handle_callback, data = remove_ub_<phone>: the SELECT, the DELETE, the
\* pop under userbots_lock, log_event.
remove_ub_locks ==
  <<Enter("db_lock"), Exit("db_lock"), Enter("db_lock"), Exit("db_lock"),
    Enter("userbots_lock"), Exit("userbots_lock"), Enter("db_lock"), Exit("db_lock")>>

\* shutdown: db.close(), the loop under userbots_lock, sys.exit(0).
shutdown_locks == <<Enter("userbots_lock"), Exit("userbots_lock"), <<"sys.exit", "none">>>>

\* The main thread from the database initialisation (`with db_lock:
\* cursor.executescript`) to the start of the scheduler thread and of the
\* dispatcher.
main_locks == <<Enter("db_lock"), Exit("db_lock"), <<"start", "none">>>>

UnchangedByLocking ==
  UNCHANGED <<tasks, cfg, target_groups, userbots_table, clients, logs, admin_actions,
              userbots, created, lock, semaphore, sched, co, running, now, join,
              attempts, due, aj, term, legacy, invitation, removal, resolution>>

Todo(th) == locking.thread[th].todo
Alive == ~locking.exited

\* The main thread reaches the database initialisation.
main_called ==
  /\ Alive /\ ~locking.initialised /\ Todo("main") = <<>>
  /\ locking' = [locking EXCEPT !.initialised = TRUE, !.thread["main"].todo = main_locks]
  /\ UNCHANGED budget
  /\ UnchangedByLocking

\* A thread other than the main one calls get_userbot_client.
get_userbot_client_called(th, found, raises) ==
  /\ Alive /\ locking.started /\ th # "main" /\ Todo(th) = <<>> /\ budget.ops > 0
  /\ locking' = [locking EXCEPT !.thread[th].todo = get_userbot_client_locks(found, raises)]
  /\ budget' = [budget EXCEPT !.ops = @ - 1]
  /\ UnchangedByLocking

\* The dispatcher runs the handler of remove_ub_<phone>.
remove_ub_called ==
  /\ Alive /\ locking.started /\ Todo("dispatcher") = <<>> /\ budget.ops > 0
  /\ locking' = [locking EXCEPT !.thread["dispatcher"].todo = remove_ub_locks]
  /\ budget' = [budget EXCEPT !.ops = @ - 1]
  /\ UnchangedByLocking

\* SIGTERM: the interpreter runs shutdown in the main thread, on top of
\* whatever the main thread was executing.
shutdown_called ==
  /\ Alive /\ ~locking.signalled
  /\ locking' = [locking EXCEPT !.signalled = TRUE,
                                !.thread["main"].todo = shutdown_locks \o @]
  /\ UNCHANGED budget
  /\ UnchangedByLocking

\* `with db_lock:` (an RLock: free, or owned by the thread) and `with
\* userbots_lock:` (a Lock: free).
with_enter(th) ==
  /\ Alive /\ Todo(th) # <<>> /\ Head(Todo(th))[1] = "enter"
  /\ LET lk == Head(Todo(th))[2]
         l == [locking EXCEPT !.thread[th].todo = Tail(@), !.thread[th].holds = @ \cup {lk}]
     IN IF lk = "db_lock"
          THEN /\ locking.db_lock.owner \in {"none", th}
               /\ locking' = [l EXCEPT !.db_lock = [owner |-> th, count |-> @.count + 1]]
          ELSE /\ locking.userbots_lock = "none"
               /\ locking' = [l EXCEPT !.userbots_lock = th]
  /\ UNCHANGED budget
  /\ UnchangedByLocking

\* The end of a `with` block.
with_exit(th) ==
  /\ Alive /\ Todo(th) # <<>> /\ Head(Todo(th))[1] = "exit"
  /\ LET lk == Head(Todo(th))[2]
         l == [locking EXCEPT !.thread[th].todo = Tail(@)]
     IN IF lk = "db_lock"
          THEN locking' =
                 IF locking.db_lock.count = 1
                   THEN [l EXCEPT !.db_lock = [owner |-> "none", count |-> 0],
                                  !.thread[th].holds = @ \ {lk}]
                   ELSE [l EXCEPT !.db_lock.count = @ - 1]
          ELSE locking' = [l EXCEPT !.userbots_lock = "none", !.thread[th].holds = @ \ {lk}]
  /\ UNCHANGED budget
  /\ UnchangedByLocking

\* task_thread.start() and updater.start_polling().
threads_started ==
  /\ Alive /\ Todo("main") # <<>> /\ Head(Todo("main"))[1] = "start"
  /\ locking' = [locking EXCEPT !.started = TRUE, !.thread["main"].todo = Tail(@)]
  /\ UNCHANGED budget
  /\ UnchangedByLocking

\* sys.exit(0) at the end of shutdown: the process and its daemon threads
\* end.
sys_exit ==
  /\ Alive /\ Todo("main") # <<>> /\ Head(Todo("main"))[1] = "sys.exit"
  /\ locking' = [locking EXCEPT !.exited = TRUE]
  /\ UNCHANGED budget
  /\ UnchangedByLocking

InitOrder ==
  /\ InitEngine
  /\ invitation = NoInvitation
  /\ due = NoDue
  /\ tasks = [t \in TaskIds |-> NoRow]
  /\ cfg = [t \in TaskIds |-> PlainCfg]
  /\ budget = [cycles |-> 0, faults |-> 0, spent |-> 0, session |-> 0, disconnect |-> 0,
               ops |-> OrderCalls]

NextOrder ==
  \/ main_called
  \/ \E th \in Threads, found \in BOOLEAN, raises \in BOOLEAN :
       get_userbot_client_called(th, found, raises)
  \/ remove_ub_called
  \/ shutdown_called
  \/ \E th \in Threads : with_enter(th)
  \/ \E th \in Threads : with_exit(th)
  \/ threads_started
  \/ sys_exit

SpecOrder == InitOrder /\ [][NextOrder]_vars


\* The lock that th is about to take, or "none".
Wants(th) ==
  IF Alive /\ Todo(th) # <<>> /\ Head(Todo(th))[1] = "enter" THEN Head(Todo(th))[2] ELSE "none"
Holds(th) == locking.thread[th].holds

\* C40: no thread tries to take db_lock while it holds userbots_lock, nor
\* userbots_lock while it holds db_lock, so the two locks cannot deadlock
\* one another.
C40_LocksNeverNested ==
  \A th \in Threads :
    /\ ~(Wants(th) = "db_lock" /\ "userbots_lock" \in Holds(th))
    /\ ~(Wants(th) = "userbots_lock" /\ "db_lock" \in Holds(th))

\* Some step is possible for a thread that has code to execute.
Progress ==
  \/ \A th \in Threads : Wants(th) = "none"
  \/ \E th \in Threads : ENABLED with_enter(th)
  \/ \E th \in Threads : ENABLED with_exit(th)
  \/ ENABLED threads_started \/ ENABLED sys_exit

\* C40 amended: no thread tries to take db_lock while it holds
\* userbots_lock; userbots_lock is requested under db_lock only by shutdown
\* when SIGTERM interrupts the database initialisation of the main thread,
\* before any other thread is started; the two locks never deadlock: while a
\* thread waits for a lock some thread can take a step.
C40_RegistryNeverOutside ==
  /\ \A th \in Threads :
       /\ ~(Wants(th) = "db_lock" /\ "userbots_lock" \in Holds(th))
       /\ (Wants(th) = "userbots_lock" /\ "db_lock" \in Holds(th)) =>
            (th = "main" /\ locking.signalled /\ ~locking.started)
       /\ ("db_lock" \in Holds(th) /\ "userbots_lock" \in Holds(th)) =>
            (th = "main" /\ locking.signalled /\ ~locking.started)
  /\ Progress

\* shutdown waits for userbots_lock, which the scheduler thread holds inside
\* get_userbot_client, while the dispatcher is in the deletion of an account
\* and holds db_lock.
C40_Witness ==
  /\ Wants("main") = "userbots_lock" /\ locking.started
  /\ locking.userbots_lock = "scheduler"
  /\ locking.db_lock.owner = "dispatcher"

====
